---- MODULE Spec2Model ----
(***************************************************************************)
(* photodate-fix: the catalog (database.py), the ingestion scan, the       *)
(* operator actions (ignore a set, correct the date of a set) and the      *)
(* per-file correction protocol of app.py, as one state machine.           *)
(*                                                                         *)
(* The handlers run one at a time in this specification (the spec's        *)
(* section 5: corrections are serialized by the caller); the steps of the  *)
(* per-file correction are separate states, so that every intermediate     *)
(* state of the protocol is visible.                                       *)
(*                                                                         *)
(* Further specifications over the same state: SpecReloc (relocation into  *)
(* a filled processed tree), SpecUpsert (batch_add_photos), SpecIngest     *)
(* (scan, similarity analysis, cleanup), SpecRetry (execute_with_retry and *)
(* the calls of the catalog), SpecSched (the jobs of PhotoScheduler),      *)
(* SpecExtract (the feature extraction statement by statement), SpecServe  *)
(* (two requests served on two threads), SpecNames (the naming functions   *)
(* over file names as sequences of parts), SpecSchema (the startup of the  *)
(* store), SpecCache (scan_photos on a long-lived PhotoManager),           *)
(* SpecCluster (find_similar_groups over stored embeddings), SpecScan      *)
(* (scan_photos over a tree the catalog knows in part), SpecRun (a run of  *)
(* run_full_photo_processing call by call), SpecRename (the file name      *)
(* move_photo_to_processed builds, character by character), SpecWrites     *)
(* (mark_photo_processed and mark_photo_ignored on their own) and          *)
(* SpecRegroup (the similarity analysis beside the corrections).           *)
(***************************************************************************)
EXTENDS Integers, Sequences, FiniteSets, TLC

(***************************************************************************)
(* Bounds of the model.                                                    *)
(***************************************************************************)
MaxEvents == 2        \* what befalls a run from outside: a file arrives or is
                      \* deleted, a file or database operation fails
MaxRequests == 2      \* operator requests (ignore a set, correct a set) in a run
MaxId == 7            \* largest row id the catalog hands out
MaxBatch == 2         \* longest batch handed to batch_add_photos
MaxCalls == 2         \* calls of batch_add_photos with one batch, of scan_photos on one manager
MaxFiles == 2         \* files in the unprocessed tree when the pipeline starts
MaxGroups == 2        \* largest id photo_groups hands out
MaxFires == 2         \* firings of the interval trigger in a run
MaxParts == 4         \* parts of the longest file name handed to the naming functions
MaxPoints == 7        \* photos with a stored embedding
MaxStarts == 2        \* startups of the program on one store
MaxRetries == 3       \* largest max_retries handed to execute_with_retry
MaxTime == 60         \* the clock stops here (seconds)
TickSeconds == 60     \* one step of the clock

(***************************************************************************)
(* Program constants.                                                      *)
(***************************************************************************)
cache_timeout == 60   \* PhotoManager._cache_timeout
default_max_retries == 3      \* execute_with_retry(self, operation_func, max_retries=3)

NULL == -1            \* a NULL timestamp column
None == <<>>          \* Python's None for a hash

(***************************************************************************)
(* File names and paths.  A file name is kept in its parts: an optional    *)
(* YYYY-MM-DD date prefix, the stem, the _a/_b side suffix, the            *)
(* disambiguator move_photo_to_processed appends, and the extension.  A    *)
(* path is a directory, a name and the ".backup" tail of create_backup.    *)
(***************************************************************************)
UNPROCESSED_DIR == <<"unprocessed">>
PROCESSED_DIR == <<"processed">>

FileName(stem, side, ext) ==
    [prefix |-> "", stem |-> stem, side |-> side, uniq |-> "", ext |-> ext]

PathOf(dir, name) == [dir |-> dir, name |-> name, bak |-> FALSE]

\* Python's None for a file path, and for a file's contents
NoPath == PathOf(<<>>, FileName("", "", ""))
NoContent == [src |-> NoPath, bytes |-> "none", mtime |-> "none"]

F1 == PathOf(UNPROCESSED_DIR, FileName("p", "_a", ".jpg"))
F2 == PathOf(UNPROCESSED_DIR \o <<"s">>, FileName("p", "_a", ".jpg"))
F3 == PathOf(UNPROCESSED_DIR, FileName("p", "_b", ".jpg"))

UnprocFiles == {F1, F3}

\* the scans without a side suffix, which the catalog calls variants
V1 == PathOf(UNPROCESSED_DIR, FileName("p", "", ".jpg"))
V2 == PathOf(UNPROCESSED_DIR \o <<"s">>, FileName("p", "", ".jpg"))

IngestFiles == {F1, F2, F3, V1, V2}

Dates == {"2001-02-03"}
RandomSuffixes == {"_r1"}        \* values of secrets.token_hex(3)
TimestampSuffixes == {"_t1", "_t2"}     \* values of str(int(time.time() * 1000))

\* datetime.strptime(date, '%Y-%m-%d') and the three strftime calls
strptime(date) ==
    CASE date = "2001-02-03" ->
           [year |-> "2001", month |-> "02", date_prefix |-> "2001-02-03"]
      [] OTHER -> [year |-> "0000", month |-> "00", date_prefix |-> date]

Lower(s) ==
    CASE s = ".JPG" -> ".jpg"
      [] s = ".JPEG" -> ".jpeg"
      [] s = ".PNG" -> ".png"
      [] s = "_A" -> "_a"
      [] s = "_B" -> "_b"
      [] OTHER -> s

\* a string as the sequence of its non-empty parts
Parts(seq) == SelectSeq(seq, LAMBDA s : s # "")

\* A file name as the sequence of its parts, for the naming functions: the
\* "YYYY-MM-DD_" prefix (written as its date), stems, "_a"/"_b" in either
\* case, the disambiguator, the extension.
NameParts(n) == Parts(<<n.prefix, n.stem, n.side, n.uniq, n.ext>>)

IsJpeg(part) == Lower(part) \in {".jpg", ".jpeg"}
IsExtension(part) == Lower(part) \in {".jpg", ".jpeg", ".png", ".tiff", ".bmp"}
\* a side suffix matched without re.IGNORECASE
IsLowerSide(part) == part \in {"_a", "_b"}

IsSide(part) == Lower(part) \in {"_a", "_b"}
IsDatePrefix(part) == part \in Dates

Last(seq) == seq[Len(seq)]
Front(seq) == SubSeq(seq, 1, Len(seq) - 1)

\* _determine_file_type: filename.endswith('_a.jpg') ..., case-sensitive
file_type_of(filename) ==
    IF Len(filename) >= 2 /\ Last(filename) \in {".jpg", ".jpeg"}
    THEN CASE filename[Len(filename) - 1] = "_a" -> "front"
           [] filename[Len(filename) - 1] = "_b" -> "back"
           [] OTHER -> "variant"
    ELSE "variant"

\* the patterns matched without re.IGNORECASE
base_name_cased(filename) ==
    IF Len(filename) >= 2 /\ Last(filename) \in {".jpg", ".jpeg"}
    THEN LET body == Front(filename)
             rest == IF IsDatePrefix(Head(body)) /\ Len(body) >= 2 THEN Tail(body) ELSE body
         IN IF Len(rest) >= 2 /\ IsLowerSide(Last(rest)) THEN Front(rest) ELSE rest
    ELSE IF filename # <<>> /\ IsExtension(Last(filename)) /\ Len(filename) >= 2
         THEN Front(filename)
         ELSE filename

\* extract_base_name: re.match of ^(\d{4}-\d{2}-\d{2}_)?(.+?)(_[ab])?\.jpe?g$
\* with re.IGNORECASE returns group 2: the optional groups take the date
\* prefix and the side suffix when something is left for the lazy group 2.
\* Without a match: os.path.splitext(filename)[0].
base_name_of(filename) ==
    IF Len(filename) >= 2 /\ IsJpeg(Last(filename))
    THEN LET body == Front(filename)
             rest == IF IsDatePrefix(Head(body)) /\ Len(body) >= 2 THEN Tail(body) ELSE body
         IN IF Len(rest) >= 2 /\ IsSide(Last(rest)) THEN Front(rest) ELSE rest
    ELSE IF filename # <<>> /\ IsExtension(Last(filename)) /\ Len(filename) >= 2
         THEN Front(filename)
         ELSE filename

\* app.py _determine_file_type
determine_file_type(n) == file_type_of(NameParts(n))

\* app.py extract_base_name
extract_base_name(n) == base_name_of(NameParts(n))

\* scan_photos: file.lower().endswith(('.jpg', '.jpeg', '.png', '.tiff', '.bmp'))
HasImageExtension(p) ==
    ~p.bak /\ Lower(p.name.ext) \in {".jpg", ".jpeg", ".png", ".tiff", ".bmp"}

\* should_ignore_file: the name contains one of IGNORE_FILE_PATTERNS
should_ignore_file(n) == n.stem \in {"SYNOFILE_", ".DS_Store", "Thumbs.db"}

\* create_backup / restore_from_backup: f"{filepath}.backup"
BackupPath(p) == [p EXCEPT !.bak = TRUE]

(***************************************************************************)
(* File contents: whose photo it is, its bytes ("orig" as it arrived, a    *)
(* date when the EXIF date fields were rewritten to that date, "corrupt"   *)
(* after a broken write) and its modification time.                        *)
(***************************************************************************)
NewFile(p) == [src |-> p, bytes |-> "orig", mtime |-> "t0"]

Exists(files, p) == p \in DOMAIN files

WriteFile(files, p, c) ==
    [q \in (DOMAIN files) \cup {p} |-> IF q = p THEN c ELSE files[q]]

RemoveFile(files, p) == [q \in (DOMAIN files) \ {p} |-> files[q]]

\* shutil.copy2: contents and metadata
copy2(files, from, to) == WriteFile(files, to, files[from])

\* shutil.move: a rename, replacing whatever is at the destination
move(files, from, to) ==
    IF from = to THEN files ELSE RemoveFile(WriteFile(files, to, files[from]), from)

\* the SHA-256 digest of the bytes (the metadata is not hashed)
Sha256(c) == <<"sha256", c.src, c.bytes>>

\* calculate_file_hash: None when the file cannot be opened
calculate_file_hash(files, p, readable) ==
    IF Exists(files, p) /\ readable THEN Sha256(files[p]) ELSE None

\* verify_file_integrity
verify_file_integrity(files, p, original_hash) ==
    calculate_file_hash(files, p, TRUE) = original_hash

\* Image.open(filepath) + img.verify(): TRUE when the image parses
ImageVerifies(c) == c.bytes # "corrupt"

\* extract_original_date: the EXIF date if there is one, else the file time
extract_original_date(files, p) ==
    IF ~Exists(files, p) THEN "none"
    ELSE IF files[p].bytes \in Dates THEN files[p].bytes
    ELSE files[p].mtime

(***************************************************************************)
(* The catalog: the rows of the photos table.                              *)
(***************************************************************************)
Row(id, filepath, base_name, file_type, default_date) ==
    [id |-> id, filepath |-> filepath, base_name |-> base_name,
     file_type |-> file_type, default_date |-> default_date,
     processed_date |-> NULL, ignored_date |-> NULL]

HasPath(rows, p) == \E r \in rows : r.filepath = p

\* one staged tuple of scan_photos
Staged(files, p) ==
    [filepath |-> p, base_name |-> extract_base_name(p.name),
     file_type |-> determine_file_type(p.name),
     default_date |-> extract_original_date(files, p)]

\* INSERT OR REPLACE of one tuple
InsertOrReplace(db, t) ==
    [rows |-> {r \in db.rows : r.filepath # t.filepath} \cup
              {Row(db.next, t.filepath, t.base_name, t.file_type, t.default_date)},
     next |-> db.next + 1]

\* INSERT OR IGNORE of one tuple
InsertOrIgnore(db, t) ==
    IF HasPath(db.rows, t.filepath) THEN db
    ELSE [rows |-> db.rows \cup
                   {Row(db.next, t.filepath, t.base_name, t.file_type, t.default_date)},
          next |-> db.next + 1]

\* batch_add_photos: executemany of INSERT OR IGNORE over the batch, in order
RECURSIVE batch_add_photos(_, _)
batch_add_photos(db, batch) ==
    IF batch = <<>> THEN db
    ELSE batch_add_photos(InsertOrIgnore(db, Head(batch)), Tail(batch))

\* add_photo: INSERT OR REPLACE deletes the row that holds the filepath and
\* inserts a fresh row (new AUTOINCREMENT id, both timestamps NULL)
add_photo(db, filepath, base_name, file_type, default_date) ==
    [rows |-> {r \in db.rows : r.filepath # filepath} \cup
              {Row(db.next, filepath, base_name, file_type, default_date)},
     next |-> db.next + 1]

\* a filepath column without the UNIQUE constraint
Unconstrained(rows, old_filepath, new_filepath) == FALSE

\* mark_photo_processed: UPDATE ... SET filepath = new, processed_date = now
\* WHERE filepath = old.  The UNIQUE constraint on filepath makes the
\* statement fail when another row already holds the new path.
UniqueViolation(rows, old_filepath, new_filepath) ==
    /\ HasPath(rows, old_filepath)
    /\ \E r \in rows : r.filepath = new_filepath /\ r.filepath # old_filepath

\* an UPDATE that sets the filepath and leaves processed_date as it is
mark_photo_moved(rows, old_filepath, new_filepath, t) ==
    { IF r.filepath = old_filepath
      THEN [r EXCEPT !.filepath = new_filepath]
      ELSE r : r \in rows }

mark_photo_processed(rows, old_filepath, new_filepath, t) ==
    { IF r.filepath = old_filepath
      THEN [r EXCEPT !.filepath = new_filepath, !.processed_date = t]
      ELSE r : r \in rows }

\* an UPDATE that marks the whole set of the file: WHERE base_name = ...
mark_set_ignored(rows, filepath, t) ==
    { IF \E x \in rows : x.filepath = filepath /\ x.base_name = r.base_name
      THEN [r EXCEPT !.ignored_date = t]
      ELSE r : r \in rows }

\* mark_photo_ignored: UPDATE ... SET ignored_date = now WHERE filepath = ?
mark_photo_ignored(rows, filepath, t) ==
    { IF r.filepath = filepath THEN [r EXCEPT !.ignored_date = t] ELSE r : r \in rows }

\* cleanup_missing_photos: the ids of the rows whose file is not on disk
missing_photo_ids(rows, files) == {r.id : r \in {x \in rows : ~Exists(files, x.filepath)}}

\* DELETE FROM photos WHERE id IN (missing_photo_ids)
cleanup_missing_photos(rows, files) ==
    {r \in rows : r.id \notin missing_photo_ids(rows, files)}

\* a cleanup that leaves the rows of the table where they are
KeepRows(table, photo_ids) == table

\* DELETE FROM photo_group_members / photo_embeddings WHERE photo_id IN (...)
DeleteOfPhotos(table, photo_ids) == {x \in table : x.photo_id \notin photo_ids}

get_processed_photos(rows) == {r.filepath : r \in {x \in rows : x.processed_date # NULL}}
get_ignored_photos(rows) == {r.filepath : r \in {x \in rows : x.ignored_date # NULL}}
get_all_photo_paths(rows) == {r.filepath : r \in rows}

(***************************************************************************)
(* get_unprocessed_photos: the rows with both timestamps NULL, ORDER BY    *)
(* base_name, file_type, folded into one pair per base_name.  SQL leaves   *)
(* the order of rows with equal sort keys open, so every such order is a   *)
(* possible result.                                                        *)
(***************************************************************************)
TypeRank(t) == CASE t = "back" -> 0 [] t = "front" -> 1 [] OTHER -> 2

BaseRank(b) == CASE b = <<"p">> -> 1 [] b = <<"q">> -> 2 [] OTHER -> 0

RowLeq(r, s) ==
    \/ BaseRank(r.base_name) < BaseRank(s.base_name)
    \/ /\ BaseRank(r.base_name) = BaseRank(s.base_name)
       /\ TypeRank(r.file_type) <= TypeRank(s.file_type)

Orderings(S) ==
    {o \in [1..Cardinality(S) -> S] : \A i, j \in 1..Cardinality(S) : i # j => o[i] # o[j]}

UnprocessedRows(rows) == {r \in rows : r.processed_date = NULL /\ r.ignored_date = NULL}

QueryOrders(rows) ==
    {o \in Orderings(UnprocessedRows(rows)) :
        \A i, j \in 1..Len(o) : i < j => RowLeq(o[i], o[j])}

EmptyPair == [front |-> NoPath, back |-> NoPath, variants |-> <<>>, default_date |-> "none"]

PairOf(pairs, b) == IF b \in DOMAIN pairs THEN pairs[b] ELSE EmptyPair

PutPair(pairs, b, pair) ==
    [k \in (DOMAIN pairs) \cup {b} |-> IF k = b THEN pair ELSE pairs[k]]

\* the body of the loop over the result rows
GroupRow(pairs, row) ==
    LET pair == PairOf(pairs, row.base_name) IN
    PutPair(pairs, row.base_name,
        IF row.file_type = "front"
        THEN [pair EXCEPT !.front = row.filepath,
                          !.default_date = IF row.default_date # "none"
                                           THEN row.default_date ELSE @]
        ELSE IF row.file_type = "back"
        THEN [pair EXCEPT !.back = row.filepath,
                          !.default_date = IF @ = "none" /\ row.default_date # "none"
                                           THEN row.default_date ELSE @]
        ELSE [pair EXCEPT !.variants = Append(@, row.filepath)])

RECURSIVE GroupRows(_, _)
GroupRows(pairs, results) ==
    IF results = <<>> THEN pairs
    ELSE GroupRows(GroupRow(pairs, Head(results)), Tail(results))

get_unprocessed_photos(results) == GroupRows(<<>>, results)

\* {k: v for k, v in photo_pairs.items() if v['front'] or v['back']}
FrontOrBack(pairs) ==
    [b \in {k \in DOMAIN pairs : pairs[k].front # NoPath \/ pairs[k].back # NoPath}
        |-> pairs[b]]

\* [pair['front'], pair['back']] + pair.get('variants', [])
FilesOfPair(pair) == <<pair.front, pair.back>> \o pair.variants

(***************************************************************************)
(* The state.                                                              *)
(***************************************************************************)
VARIABLES
    fs,         \* the file system: path -> contents, for the files that exist
    db,         \* the catalog: rows of photos, and the next AUTOINCREMENT id
    now,        \* the clock, in seconds
    cache,      \* photo_manager._cache['unprocessed_pairs']: (time, value)
    req,        \* the update_date request being served
    tx,         \* update_photo_date: where it is, and its locals
    events,     \* arrivals, deletions and failed operations so far
    requests,   \* operator requests so far
    staged,     \* a batch handed to batch_add_photos, and the calls made with it
    sim,        \* the rows of photo_groups, photo_group_members, photo_embeddings
    ret,        \* what the last cleanup_missing_photos returned
    call,       \* a catalog call: the operation, its attempts and how it ended
    sched,      \* the jobs of PhotoScheduler and the pipeline runs in flight
    other,      \* the request and the correction of the second server thread
    naming,     \* a file name, and what the naming functions make of it
    schema,     \* the tables, columns and indexes of the store, and the startups
    scans,      \* photo_manager._cache['scan_photos'], and the calls of scan_photos
    analysis    \* a stored embedding set, eps, min_samples, and the runs on them

vars ==
    <<fs, db, now, cache, req, tx, events, requests, staged, sim, ret, call, sched, other,
      naming, schema, scans, analysis>>

\* the similarity tables when empty (next is the next AUTOINCREMENT id of
\* photo_groups), and run_similarity_analysis when it is not running
NoTables ==
    [groups |-> {}, members |-> {}, embeddings |-> {}, next |-> 1,
     pc |-> "idle", found |-> <<>>, photos_to_process |-> <<>>]

NoCall == [op |-> "none", max_retries |-> 0, invocations |-> <<>>, waits |-> <<>>,
           status |-> "idle"]

\* no run of run_full_photo_processing under way
NoRun ==
    [pc |-> "none", scan_success |-> FALSE, analysis_success |-> FALSE, returned |-> FALSE,
     trace |-> <<>>]

NoSched ==
    [started |-> FALSE, initial |-> "none", interval |-> "none", fired |-> 0, run |-> NoRun]

NoCache == [at |-> NULL, value |-> <<>>]

\* no scan_photos call made on the long-lived PhotoManager: nothing cached
NoScan ==
    [at |-> NULL, value |-> <<>>, calls |-> 0, walked |-> FALSE, returned |-> <<>>,
     walk |-> <<>>, effects |-> <<>>]

\* no embedding stored, the default parameters, no run
NoAnalysis == [embeddings_data |-> <<>>, eps |-> 1, min_samples |-> 2, runs |-> <<>>]

NoBatch == [batch |-> <<>>, applied |-> 0]

NoReq == [active |-> FALSE, date |-> "none", files |-> <<>>, todo |-> <<>>, results |-> <<>>]

IdleTx ==
    [pc |-> "idle", file |-> NoPath, date |-> "none", original_hash |-> None,
     new_filepath |-> NoPath, pre |-> NoContent, verified |-> FALSE,
     committed |-> FALSE, success |-> FALSE, failed_at |-> "none"]

\* The schema of the store.  TableColumns is the columns of the four CREATE
\* TABLE statements, IndexTable the table of each of the six CREATE INDEX
\* statements, in the order init_database executes them.
TableColumns ==
    [photos |-> {"id", "filepath", "base_name", "file_type", "default_date",
                 "processed_date", "ignored_date", "created_at", "updated_at"},
     photo_groups |-> {"id", "name", "description", "similarity_score", "created_at",
                       "updated_at"},
     photo_group_members |-> {"id", "photo_id", "group_id", "similarity_score",
                              "created_at"},
     photo_embeddings |-> {"id", "photo_id", "embedding_type", "embedding_data",
                           "created_at"}]

TableOrder == <<"photos", "photo_groups", "photo_group_members", "photo_embeddings">>

IndexTable ==
    [idx_photos_base_name |-> "photos", idx_photos_processed |-> "photos",
     idx_photos_ignored |-> "photos", idx_group_members_photo |-> "photo_group_members",
     idx_group_members_group |-> "photo_group_members",
     idx_embeddings_photo |-> "photo_embeddings"]

IndexOrder ==
    <<"idx_photos_base_name", "idx_photos_processed", "idx_photos_ignored",
      "idx_group_members_photo", "idx_group_members_group", "idx_embeddings_photo">>

\* a table as the CREATE TABLE statement makes it: its columns and no row
NewTable(t) == [columns |-> TableColumns[t], rows |-> {}]

\* the store the program has set up and started on: every table, every
\* index, no legacy list file
NewStore ==
    [tables |-> [t \in DOMAIN TableColumns |-> NewTable(t)],
     indexes |-> DOMAIN IndexTable, json |-> "none", starts |-> 1]

\* no file name at hand
NoName ==
    [filename |-> <<>>, base_name |-> <<>>, file_type |-> "none",
     date |-> <<>>, exists |-> FALSE, new_filename |-> <<>>]

\* a server thread that serves no request
NoThread == [req |-> NoReq, tx |-> IdleTx]

\* the state outside the photos table, the file system and the handlers
Rest ==
    /\ sim = NoTables /\ ret = NULL /\ call = NoCall /\ sched = NoSched /\ other = NoThread
    /\ naming = NoName
    /\ schema = NewStore
    /\ scans = NoScan
    /\ analysis = NoAnalysis

BaseNames == {extract_base_name(p.name) : p \in UnprocFiles}

Idle == ~req.active /\ tx.pc = "idle"

Init ==
    /\ fs = [p \in UnprocFiles |-> NewFile(p)]
    /\ db = [rows |-> {}, next |-> 1]
    /\ now = 0
    /\ cache = NoCache
    /\ req = NoReq
    /\ tx = IdleTx
    /\ events = 0
    /\ requests = 0
    /\ staged = NoBatch
    /\ Rest

(***************************************************************************)
(* The environment: the scanner drops a file into the unprocessed tree,    *)
(* the operator deletes a file, time passes.                               *)
(***************************************************************************)
InUnprocessedTree(p) == p.dir # <<>> /\ Head(p.dir) = Head(UNPROCESSED_DIR)
InProcessedTree(p) == p.dir # <<>> /\ Head(p.dir) = Head(PROCESSED_DIR)

FileArrives(p) ==
    /\ Idle
    /\ events < MaxEvents
    /\ ~Exists(fs, p)
    /\ fs' = WriteFile(fs, p, NewFile(p))
    /\ events' = events + 1
    /\ UNCHANGED <<db, now, cache, req, tx, requests, staged, sim, ret, call, sched, other, naming,
                   schema, scans, analysis>>

FileDeleted(p) ==
    /\ Idle
    /\ Exists(fs, p)
    /\ events < MaxEvents
    /\ fs' = RemoveFile(fs, p)
    /\ events' = events + 1
    /\ UNCHANGED <<db, now, cache, req, tx, requests, staged, sim, ret, call, sched, other, naming,
                   schema, scans, analysis>>

Tick ==
    /\ Idle
    /\ now + TickSeconds <= MaxTime
    /\ now' = now + TickSeconds
    /\ UNCHANGED <<fs, db, cache, req, tx, events, requests, staged, sim, ret, call, sched, other, naming,
                   schema, scans, analysis>>

(***************************************************************************)
(* scan_photos, as run_photo_scan calls it: on a new PhotoManager, whose   *)
(* cache is empty.  os.walk lists the files of a directory in any order,   *)
(* a directory before its subdirectories.                                  *)
(***************************************************************************)
Walked(files, rows) ==
    {p \in DOMAIN files :
        /\ InUnprocessedTree(p)
        /\ HasImageExtension(p)
        /\ ~should_ignore_file(p.name)
        /\ p \notin get_processed_photos(rows)
        /\ p \notin get_ignored_photos(rows)}

WalkOrders(S) ==
    {o \in Orderings(S) : \A i, j \in 1..Len(o) : i < j => Len(o[i].dir) <= Len(o[j].dir)}

\* new_photos_to_add: the walked files that are not in existing_photos
NewPhotos(files, rows) == {p \in Walked(files, rows) : p \notin get_all_photo_paths(rows)}

\* a scan that stages every walked file and writes it with INSERT OR REPLACE
ScanReplacing(files, d) ==
    LET RECURSIVE Replace(_, _)
        Replace(c, batch) ==
            IF batch = <<>> THEN c ELSE Replace(InsertOrReplace(c, Head(batch)), Tail(batch))
    IN {Replace(d, [i \in 1..Len(walk) |-> Staged(files, walk[i])]) :
           walk \in WalkOrders(Walked(files, d.rows))}

\* the catalogs a scan of the tree can leave, one for each order of the walk
ScanResults(files, d) ==
    {batch_add_photos(d, [i \in 1..Len(walk) |-> Staged(files, walk[i])]) :
        walk \in WalkOrders(NewPhotos(files, d.rows))}

scan_photos ==
    /\ Idle
    /\ db.next + Cardinality(NewPhotos(fs, db.rows)) - 1 <= MaxId
    /\ db' \in ScanResults(fs, db)
    /\ UNCHANGED <<fs, now, cache, req, tx, events, requests, staged, sim, ret, call, sched, other, naming,
                   schema, scans, analysis>>

\* cleanup_database.py: cleanup_stale_entries
cleanup_stale_entries ==
    /\ Idle
    /\ LET missing == missing_photo_ids(db.rows, fs) IN
       /\ sim' = [sim EXCEPT !.members = DeleteOfPhotos(@, missing),
                             !.embeddings = DeleteOfPhotos(@, missing)]
       /\ db' = [db EXCEPT !.rows = cleanup_missing_photos(db.rows, fs)]
       /\ ret' = Cardinality(missing)
    /\ UNCHANGED <<fs, now, cache, req, tx, events, requests, staged, call, sched, other, naming,
                   schema, scans, analysis>>

(***************************************************************************)
(* get_unprocessed_photo_pairs: the cached value while it is fresh, else   *)
(* the catalog's answer, which is then cached.                             *)
(***************************************************************************)
\* a cache that keeps an entry through the second of its expiry
ValidAtExpiry(cached_time, t) == cached_time # NULL /\ t - cached_time <= cache_timeout

\* _get_cached: the entry stored at cached_time is still valid at time t
StillValid(cached_time, t) == cached_time # NULL /\ t - cached_time < cache_timeout

CacheFresh == StillValid(cache.at, now)

PairViews ==
    IF CacheFresh THEN {cache.value}
    ELSE {FrontOrBack(get_unprocessed_photos(o)) : o \in QueryOrders(db.rows)}

CacheAfter(pairs) == IF CacheFresh THEN cache ELSE [at |-> now, value |-> pairs]

(***************************************************************************)
(* POST /ignore_photos: ignore_photo_set on the set of base_name.          *)
(***************************************************************************)
\* the loop body of ignore_photo_set for one file
IgnoreFile(d, files, filepath, base_name, t) ==
    IF filepath = NoPath THEN d
    ELSE LET added == add_photo(d, filepath, base_name,
                                determine_file_type(filepath.name),
                                extract_original_date(files, filepath))
         IN [added EXCEPT !.rows = mark_photo_ignored(added.rows, filepath, t)]

RECURSIVE IgnoreFiles(_, _, _, _, _)
IgnoreFiles(d, files, paths, base_name, t) ==
    IF paths = <<>> THEN d
    ELSE IgnoreFiles(IgnoreFile(d, files, Head(paths), base_name, t),
                     files, Tail(paths), base_name, t)

ignore_photo_set(d, files, base_name, photo_pairs, t) ==
    IF base_name \in DOMAIN photo_pairs
    THEN IgnoreFiles(d, files, FilesOfPair(photo_pairs[base_name]), base_name, t)
    ELSE d

ignore_photos(base_name) ==
    /\ Idle
    /\ \E photo_pairs \in PairViews :
          /\ cache' = CacheAfter(photo_pairs)
          /\ LET after == ignore_photo_set(db, fs, base_name, photo_pairs, now) IN
             /\ after.next - 1 <= MaxId
             /\ db' = after
    /\ requests < MaxRequests
    /\ requests' = requests + 1
    /\ UNCHANGED <<fs, now, req, tx, events, staged, sim, ret, call, sched, other, naming, schema,
                   scans, analysis>>

(***************************************************************************)
(* POST /update_date: update_photo_date on every file of the set that      *)
(* exists on disk, one after the other.                                    *)
(***************************************************************************)
update_date(base_name, new_date) ==
    /\ Idle
    /\ \E photo_pairs \in PairViews :
          /\ cache' = CacheAfter(photo_pairs)
          /\ req' = IF base_name \in DOMAIN photo_pairs
                    THEN [active |-> TRUE, date |-> new_date,
                          files |-> FilesOfPair(photo_pairs[base_name]),
                          todo |-> FilesOfPair(photo_pairs[base_name]),
                          results |-> <<>>]
                    ELSE NoReq
    /\ requests < MaxRequests
    /\ requests' = requests + 1
    /\ UNCHANGED <<fs, db, now, tx, events, staged, sim, ret, call, sched, other, naming, schema,
                   scans, analysis>>

\* if filepath and os.path.exists(filepath): ... else the file is passed over
SkipFile ==
    /\ req.active /\ tx.pc = "idle" /\ req.todo # <<>>
    /\ ~(Head(req.todo) # NoPath /\ Exists(fs, Head(req.todo)))
    /\ req' = [req EXCEPT !.todo = Tail(@)]
    /\ UNCHANGED <<fs, db, now, cache, tx, events, requests, staged, sim, ret, call, sched, other, naming,
                   schema, scans, analysis>>

\* the call of update_photo_date(filepath, new_date)
BeginFile ==
    /\ req.active /\ tx.pc = "idle" /\ req.todo # <<>>
    /\ Head(req.todo) # NoPath /\ Exists(fs, Head(req.todo))
    /\ tx' = [IdleTx EXCEPT !.pc = "hash", !.file = Head(req.todo),
                            !.date = req.date, !.pre = fs[Head(req.todo)]]
    /\ UNCHANGED <<fs, db, now, cache, req, events, requests, staged, sim, ret, call, sched, other, naming,
                   schema, scans, analysis>>

\* a return that reports success whatever happened
ReturnTrue(t, success, step) ==
    [t EXCEPT !.pc = "done", !.success = TRUE, !.failed_at = step]

\* return False, ... / return True, ...
Return(t, success, step) ==
    [t EXCEPT !.pc = "done", !.success = success, !.failed_at = step]

\* the inner except clause: restore_from_backup comes next
Raise(t, step) == [t EXCEPT !.pc = "restore", !.failed_at = step]

\* a hash failure that is handled like a failure of the later steps
NoHashRestoring(t) == Raise(t, "hash")

\* if not original_hash: return False, "Could not calculate file hash"
NoHash(t) == Return(t, FALSE, "hash")

\* 1. original_hash = self.calculate_file_hash(filepath)
Hash ==
    /\ tx.pc = "hash"
    /\ \E readable \in BOOLEAN :
          LET original_hash == calculate_file_hash(fs, tx.file, readable) IN
          /\ readable \/ events < MaxEvents
          /\ events' = IF readable THEN events ELSE events + 1
          /\ tx' = IF original_hash = None
                   THEN NoHash(tx)
                   ELSE [tx EXCEPT !.pc = "backup", !.original_hash = original_hash]
    /\ UNCHANGED <<fs, db, now, cache, req, requests, staged, sim, ret, call, sched, other, naming,
                   schema, scans, analysis>>

\* create_backup
create_backup(files, filepath) == copy2(files, filepath, BackupPath(filepath))

\* 2. backup_path = self.create_backup(filepath); a failed copy (the file
\* is gone, or the copy breaks off) is caught by the outer except clause
Backup ==
    /\ tx.pc = "backup"
    /\ \/ /\ fs' = IF Exists(fs, tx.file) THEN create_backup(fs, tx.file) ELSE fs
          /\ tx' = IF Exists(fs, tx.file)
                   THEN [tx EXCEPT !.pc = "mutate"]
                   ELSE Return(tx, FALSE, "backup")
          /\ UNCHANGED events
       \/ /\ events < MaxEvents
          /\ events' = events + 1
          /\ tx' = Return(tx, FALSE, "backup")
          /\ UNCHANGED fs
    /\ UNCHANGED <<db, now, cache, req, requests, staged, sim, ret, call, sched, other, naming,
                   schema, scans, analysis>>

\* os.utime(filepath, (timestamp, timestamp))
utime(files, filepath, date) ==
    [files EXCEPT ![filepath] = [@ EXCEPT !.mtime = date]]

\* update_exif_date never raises: the dates are written ("written"), or the
\* write is given up before the file is touched ("skipped"), or it breaks
\* off and leaves a damaged file ("corrupt")
update_exif_date(files, filepath, date, outcome) ==
    [files EXCEPT ![filepath] =
        [@ EXCEPT !.bytes = CASE outcome = "written" -> date
                              [] outcome = "corrupt" -> "corrupt"
                              [] OTHER -> @]]

\* 3. os.utime, which raises when the file is gone, then update_exif_date
Mutate ==
    /\ tx.pc = "mutate"
    /\ \/ /\ events < MaxEvents
          /\ events' = events + 1
          /\ tx' = Raise(tx, "mutate")
          /\ UNCHANGED fs
       \/ /\ ~Exists(fs, tx.file)
          /\ tx' = Raise(tx, "mutate")
          /\ UNCHANGED <<fs, events>>
       \/ \E outcome \in {"written", "skipped", "corrupt"} :
             /\ Exists(fs, tx.file)
             /\ outcome = "written" \/ events < MaxEvents
             /\ events' = IF outcome = "written" THEN events ELSE events + 1
             /\ fs' = update_exif_date(utime(fs, tx.file, tx.date), tx.file, tx.date, outcome)
             /\ tx' = [tx EXCEPT !.pc = "verify"]
    /\ UNCHANGED <<db, now, cache, req, requests, staged, sim, ret, call, sched, other, naming,
                   schema, scans, analysis>>

\* a check that lets every file through
VerifiedUnchecked(files, filepath, original_hash) == TRUE

\* if not verify_file_integrity(...): Image.open(filepath).verify()
Verified(files, filepath, original_hash) ==
    \/ verify_file_integrity(files, filepath, original_hash)
    \/ Exists(files, filepath) /\ ImageVerifies(files[filepath])

\* 4. the integrity check
Verify ==
    /\ tx.pc = "verify"
    /\ tx' = IF Verified(fs, tx.file, tx.original_hash)
             THEN [tx EXCEPT !.pc = "move", !.verified = TRUE]
             ELSE Raise(tx, "verify")
    /\ UNCHANGED <<fs, db, now, cache, req, events, requests, staged, sim, ret, call, sched, other, naming,
                   schema, scans, analysis>>

\* os.path.join(processed_dir, new_filename): the date prefix is put in
\* front of the name (or replaces the date prefix it has)
ProcessedPath(filepath, date, uniq) ==
    LET date_obj == strptime(date) IN
    PathOf(PROCESSED_DIR \o <<date_obj.year, date_obj.month>>,
           [filepath.name EXCEPT !.prefix = date_obj.date_prefix, !.uniq = uniq])

\* The names move_photo_to_processed can end up with.  The name with the
\* date prefix if no file has it.  Else each random suffix whose name is
\* free (the loop breaks there); and, since every one of the 100 draws may
\* hit a name that exists, the name with the timestamp suffix, which is not
\* tested for existence.
Destinations(files, filepath, date) ==
    IF ~Exists(files, ProcessedPath(filepath, date, ""))
    THEN {ProcessedPath(filepath, date, "")}
    ELSE {ProcessedPath(filepath, date, r) :
             r \in {x \in RandomSuffixes : ~Exists(files, ProcessedPath(filepath, date, x))}}
         \cup
         (IF \E x \in RandomSuffixes : Exists(files, ProcessedPath(filepath, date, x))
          THEN {ProcessedPath(filepath, date, t) : t \in TimestampSuffixes}
          ELSE {})

\* 5. move_photo_to_processed: the new path, or, when makedirs or the move
\* raises, the original path with the file left where it was
Move ==
    /\ tx.pc = "move"
    /\ \/ /\ ~Exists(fs, tx.file)
          /\ tx' = [tx EXCEPT !.pc = "commit", !.new_filepath = tx.file]
          /\ UNCHANGED <<fs, events>>
       \/ \E new_filepath \in Destinations(fs, tx.file, tx.date) :
             /\ Exists(fs, tx.file)
             /\ fs' = move(fs, tx.file, new_filepath)
             /\ tx' = [tx EXCEPT !.pc = "commit", !.new_filepath = new_filepath]
             /\ UNCHANGED events
       \/ /\ events < MaxEvents
          /\ events' = events + 1
          /\ tx' = [tx EXCEPT !.pc = "commit", !.new_filepath = tx.file]
          /\ UNCHANGED fs
    /\ UNCHANGED <<db, now, cache, req, requests, staged, sim, ret, call, sched, other, naming,
                   schema, scans, analysis>>

\* 6. self.db.mark_photo_processed(filepath, new_filepath): raises on a
\* UNIQUE violation and on a locked database; its return value, rows_affected
\* > 0, is dropped by update_photo_date and kept here in tx.committed
Commit ==
    /\ tx.pc = "commit"
    /\ \/ /\ ~UniqueViolation(db.rows, tx.file, tx.new_filepath)
          /\ db' = [db EXCEPT !.rows =
                       mark_photo_processed(@, tx.file, tx.new_filepath, now)]
          /\ tx' = [tx EXCEPT !.pc = "cleanup",
                                !.committed = HasPath(db.rows, tx.file)]
          /\ UNCHANGED events
       \/ /\ UniqueViolation(db.rows, tx.file, tx.new_filepath)
          /\ tx' = Raise(tx, "commit")
          /\ UNCHANGED <<db, events>>
       \/ /\ events < MaxEvents
          /\ events' = events + 1
          /\ tx' = Raise(tx, "commit")
          /\ UNCHANGED db
    /\ UNCHANGED <<fs, now, cache, req, requests, staged, sim, ret, call, sched, other, naming,
                   schema, scans, analysis>>

\* 7. if os.path.exists(backup_path): os.remove(backup_path); a failed
\* os.remove is caught by the inner except clause like any other step
Cleanup ==
    /\ tx.pc = "cleanup"
    /\ \/ /\ fs' = IF Exists(fs, BackupPath(tx.file))
                   THEN RemoveFile(fs, BackupPath(tx.file)) ELSE fs
          /\ tx' = Return(tx, TRUE, "none")
          /\ UNCHANGED events
       \/ /\ events < MaxEvents
          /\ Exists(fs, BackupPath(tx.file))
          /\ events' = events + 1
          /\ tx' = Raise(tx, "cleanup")
          /\ UNCHANGED fs
    /\ UNCHANGED <<db, now, cache, req, requests, staged, sim, ret, call, sched, other, naming,
                   schema, scans, analysis>>

\* a rollback that drops the backup without copying it back
restore_without_copy(files, filepath) ==
    IF Exists(files, BackupPath(filepath))
    THEN RemoveFile(files, BackupPath(filepath))
    ELSE files

\* restore_from_backup
restore_from_backup(files, filepath) ==
    IF Exists(files, BackupPath(filepath))
    THEN RemoveFile(copy2(files, BackupPath(filepath), filepath), BackupPath(filepath))
    ELSE files

\* except Exception: self.restore_from_backup(filepath); return False, ...
Restore ==
    /\ tx.pc = "restore"
    /\ fs' = restore_from_backup(fs, tx.file)
    /\ tx' = Return(tx, FALSE, tx.failed_at)
    /\ UNCHANGED <<db, now, cache, req, events, requests, staged, sim, ret, call, sched, other, naming,
                   schema, scans, analysis>>

\* results.append({'file': ..., 'success': success, ...})
Collect ==
    /\ tx.pc = "done"
    /\ req' = [req EXCEPT !.todo = Tail(@),
                          !.results = Append(@, [file |-> tx.file, success |-> tx.success])]
    /\ tx' = IdleTx
    /\ UNCHANGED <<fs, db, now, cache, events, requests, staged, sim, ret, call, sched, other, naming,
                   schema, scans, analysis>>

\* return jsonify({'success': all_success, ...})
Respond ==
    /\ req.active /\ tx.pc = "idle" /\ req.todo = <<>>
    /\ req' = NoReq
    /\ UNCHANGED <<fs, db, now, cache, tx, events, requests, staged, sim, ret, call, sched, other, naming,
                   schema, scans, analysis>>

Next ==
    \/ \E p \in UnprocFiles : FileArrives(p)
    \/ \E p \in {q \in DOMAIN fs : InProcessedTree(q)} : FileDeleted(p)
    \/ Tick
    \/ scan_photos
    \/ cleanup_stale_entries
    \/ \E b \in BaseNames : ignore_photos(b)
    \/ \E b \in BaseNames, d \in Dates : update_date(b, d)
    \/ SkipFile
    \/ BeginFile
    \/ Hash
    \/ Backup
    \/ Mutate
    \/ Verify
    \/ Move
    \/ Commit
    \/ Cleanup
    \/ Restore
    \/ Collect
    \/ Respond

Spec == Init /\ [][Next]_vars

(***************************************************************************)
(* Relocation into a processed tree that earlier runs have filled.  The    *)
(* tree is persistent storage: it holds the files of earlier corrections,  *)
(* here of the photo p_a.jpg of a subdirectory, corrected to the same date *)
(* once, twice or three times, so that the names move_photo_to_processed   *)
(* tries first are taken.  Spec reaches such a tree from the empty one     *)
(* with three arrivals and four corrections.                               *)
(***************************************************************************)
OldFile(date) == [src |-> F2, bytes |-> date, mtime |-> date]

TakenNames ==
    {ProcessedPath(F1, d, u) :
        d \in Dates, u \in {""} \cup RandomSuffixes \cup TimestampSuffixes}

InitReloc ==
    /\ \E taken \in SUBSET TakenNames :
          fs = [p \in UnprocFiles \cup taken |->
                   IF p \in taken THEN OldFile(p.name.prefix) ELSE NewFile(p)]
    /\ db = [rows |-> {}, next |-> 1]
    /\ now = 0
    /\ cache = NoCache
    /\ req = NoReq
    /\ tx = IdleTx
    /\ events = 0
    /\ requests = 0
    /\ staged = NoBatch
    /\ Rest

NextReloc ==
    \/ scan_photos
    \/ \E b \in BaseNames, d \in Dates : update_date(b, d)
    \/ SkipFile
    \/ BeginFile
    \/ Hash
    \/ Backup
    \/ Mutate
    \/ Verify
    \/ Move
    \/ Commit
    \/ Cleanup
    \/ Restore
    \/ Collect
    \/ Respond

SpecReloc == InitReloc /\ [][NextReloc]_vars

(***************************************************************************)
(* batch_add_photos on its own: a catalog in which each file has no row,   *)
(* an unprocessed row, a processed row or an ignored row, and a batch of   *)
(* tuples for these files, handed to batch_add_photos again and again.     *)
(***************************************************************************)
Tuples ==
    [filepath : UnprocFiles, base_name : BaseNames,
     file_type : {"front", "back"}, default_date : {"t0"} \cup Dates]

Batches == UNION {[1..k -> Tuples] : k \in 0..MaxBatch}

RowStates == {"absent", "unprocessed", "processed", "ignored"}

RowId(p) == IF p = F1 THEN 1 ELSE 2

CatalogRow(p, state) ==
    LET t == Staged([q \in {p} |-> NewFile(q)], p)
        r == Row(RowId(p), t.filepath, t.base_name, t.file_type, t.default_date)
    IN CASE state = "processed" -> [r EXCEPT !.processed_date = 0]
         [] state = "ignored" -> [r EXCEPT !.ignored_date = 0]
         [] OTHER -> r

Catalogs ==
    {[rows |-> {CatalogRow(p, st[p]) : p \in {q \in UnprocFiles : st[q] # "absent"}},
      next |-> 3] : st \in [UnprocFiles -> RowStates]}

InitUpsert ==
    /\ fs = [p \in UnprocFiles |-> NewFile(p)]
    /\ db \in Catalogs
    /\ now = 0
    /\ cache = NoCache
    /\ req = NoReq
    /\ tx = IdleTx
    /\ events = 0
    /\ requests = 0
    /\ \E batch \in Batches : staged = [batch |-> batch, applied |-> 0]
    /\ Rest

\* self.db.batch_add_photos(new_photos_to_add)
AddBatch ==
    /\ staged.applied < MaxCalls
    /\ db' = batch_add_photos(db, staged.batch)
    /\ staged' = [staged EXCEPT !.applied = @ + 1]
    /\ UNCHANGED <<fs, now, cache, req, tx, events, requests, sim, ret, call, sched, other, naming,
                   schema, scans, analysis>>

NextUpsert == AddBatch

SpecUpsert == InitUpsert /\ [][NextUpsert]_vars

(***************************************************************************)
(* The similarity tables (photo_embeddings, photo_groups and               *)
(* photo_group_members) and run_similarity_analysis: embeddings for the    *)
(* unprocessed variants that have none, clustering of all embeddings, one  *)
(* new group per cluster.  get_connection sets no PRAGMA foreign_keys, so  *)
(* the ON DELETE CASCADE clauses of the schema do nothing: rows of these   *)
(* tables go only where the code deletes them.                             *)
(***************************************************************************)
\* extract_features: the feature vector of the picture in the file
extract_features(files, p) == <<"features", files[p].src.name.stem, files[p].bytes>>

\* the SELECT of compute_embeddings_for_all_photos
PhotosToProcess(rows, embeddings) ==
    {r \in rows :
        /\ r.processed_date = NULL
        /\ r.ignored_date = NULL
        /\ r.file_type = "variant"
        /\ ~\E e \in embeddings : e.photo_id = r.id}

\* get_photo_embeddings: photos JOIN photo_embeddings ON p.id = pe.photo_id
get_photo_embeddings(rows, embeddings) ==
    {[filepath |-> pr[1].filepath, embedding |-> pr[2].embedding_data] :
        pr \in {x \in rows \X embeddings : x[2].photo_id = x[1].id}}

\* cosine distance of two feature vectors within eps
Similar(a, b) == a = b

\* DBSCAN with min_samples = 2 over the embeddings: the clusters are the
\* classes of similar photos that have more than one member
Clusters(embeddings_data) ==
    IF Cardinality(embeddings_data) < 2 THEN {}
    ELSE {g \in {{x.filepath : x \in {y \in embeddings_data : Similar(y.embedding, z.embedding)}} :
                    z \in embeddings_data} : Cardinality(g) > 1}

\* add_photo_to_group: nothing is inserted when no photo has the filepath
add_photo_to_group(members, rows, photo_filepath, group_id) ==
    IF ~HasPath(rows, photo_filepath) THEN members
    ELSE members \cup
         {[photo_id |-> r.id, group_id |-> group_id] :
             r \in {x \in rows : x.filepath = photo_filepath}}

\* create_photo_group and the loop over the filepaths of the group
CreateGroup(tables, rows, group) ==
    [tables EXCEPT
        !.groups = @ \cup {[id |-> tables.next, photo_count |-> Cardinality(group)]},
        !.members = UNION ({@} \cup {add_photo_to_group({}, rows, f, tables.next) : f \in group}),
        !.next = @ + 1]

RECURSIVE CreateGroups(_, _, _)
CreateGroups(tables, rows, groups) ==
    IF groups = <<>> THEN tables
    ELSE CreateGroups(CreateGroup(tables, rows, Head(groups)), rows, Tail(groups))

compute_embeddings_for_all_photos ==
    /\ sim.pc = "idle"
    /\ sim' = [sim EXCEPT
                 !.embeddings = @ \cup
                     {[photo_id |-> r.id, embedding_data |-> extract_features(fs, r.filepath)] :
                         r \in {x \in PhotosToProcess(db.rows, sim.embeddings) :
                                   Exists(fs, x.filepath)}},
                 !.pc = "embedded"]
    /\ UNCHANGED <<fs, db, now, cache, req, tx, events, requests, staged, ret, call, sched, other, naming,
                   schema, scans, analysis>>

find_similar_groups ==
    /\ sim.pc = "embedded"
    /\ \E groups \in Orderings(Clusters(get_photo_embeddings(db.rows, sim.embeddings))) :
          sim' = [sim EXCEPT !.pc = "found", !.found = groups]
    /\ UNCHANGED <<fs, db, now, cache, req, tx, events, requests, staged, ret, call, sched, other, naming,
                   schema, scans, analysis>>

create_photo_groups_in_database ==
    /\ sim.pc = "found"
    /\ sim.next + Len(sim.found) - 1 <= MaxGroups
    /\ sim' = [CreateGroups(sim, db.rows, sim.found) EXCEPT !.pc = "idle", !.found = <<>>]
    /\ UNCHANGED <<fs, db, now, cache, req, tx, events, requests, staged, ret, call, sched, other, naming,
                   schema, scans, analysis>>

(***************************************************************************)
(* The ingestion pipeline over a tree that holds fronts, backs and         *)
(* variants of one base name, in the directory and in a subdirectory:      *)
(* files are deleted, the scan and the similarity analysis run, the        *)
(* operator ignores the set, the cleanup script reconciles.                *)
(***************************************************************************)
InitIngest ==
    /\ \E present \in {S \in SUBSET IngestFiles : Cardinality(S) <= MaxFiles} :
          fs = [p \in present |-> NewFile(p)]
    /\ db = [rows |-> {}, next |-> 1]
    /\ now = 0
    /\ cache = NoCache
    /\ req = NoReq
    /\ tx = IdleTx
    /\ events = 0
    /\ requests = 0
    /\ staged = NoBatch
    /\ Rest

NextIngest ==
    \/ \E p \in DOMAIN fs : FileDeleted(p)
    \/ scan_photos
    \/ compute_embeddings_for_all_photos
    \/ find_similar_groups
    \/ create_photo_groups_in_database
    \/ cleanup_stale_entries
    \/ \E b \in BaseNames : ignore_photos(b)

SpecIngest == InitIngest /\ [][NextIngest]_vars

(***************************************************************************)
(* compute_embeddings_for_all_photos statement by statement, on the        *)
(* scheduler's thread, while the web requests are served: the SELECT is    *)
(* one transaction, each INSERT OR REPLACE of the loop another, and the    *)
(* extraction of the features of one photo comes in between.               *)
(***************************************************************************)
\* INSERT OR REPLACE INTO photo_embeddings: UNIQUE (photo_id, embedding_type),
\* and 'combined' is the only embedding_type written
StoreEmbedding(embeddings, photo_id, embedding_data) ==
    {e \in embeddings : e.photo_id # photo_id} \cup
    {[photo_id |-> photo_id, embedding_data |-> embedding_data]}

\* the SELECT and fetchall
SelectPhotosToProcess ==
    /\ sim.pc = "idle"
    /\ PhotosToProcess(db.rows, sim.embeddings) # {}
    /\ \E photos_to_process \in Orderings(PhotosToProcess(db.rows, sim.embeddings)) :
          sim' = [sim EXCEPT !.pc = "extracting",
                             !.photos_to_process =
                                 [i \in 1..Len(photos_to_process) |->
                                     [id |-> photos_to_process[i].id,
                                      filepath |-> photos_to_process[i].filepath]]]
    /\ UNCHANGED <<fs, db, now, cache, req, tx, events, requests, staged, ret, call, sched,
                   other, naming, schema, scans, analysis>>

\* one turn of the loop
ExtractPhoto ==
    /\ sim.pc = "extracting"
    /\ sim.photos_to_process # <<>>
    /\ LET photo == Head(sim.photos_to_process) IN
       sim' = [sim EXCEPT
                 !.photos_to_process = Tail(@),
                 !.embeddings =
                     IF Exists(fs, photo.filepath)
                     THEN StoreEmbedding(@, photo.id, extract_features(fs, photo.filepath))
                     ELSE @]
    /\ UNCHANGED <<fs, db, now, cache, req, tx, events, requests, staged, ret, call, sched,
                   other, naming, schema, scans, analysis>>

\* the loop is over
ExtractionCompleted ==
    /\ sim.pc = "extracting"
    /\ sim.photos_to_process = <<>>
    /\ sim' = [sim EXCEPT !.pc = "idle"]
    /\ UNCHANGED <<fs, db, now, cache, req, tx, events, requests, staged, ret, call, sched,
                   other, naming, schema, scans, analysis>>

NextExtract ==
    \/ \E p \in DOMAIN fs : FileDeleted(p)
    \/ scan_photos
    \/ SelectPhotosToProcess
    \/ ExtractPhoto
    \/ ExtractionCompleted
    \/ cleanup_stale_entries
    \/ \E b \in BaseNames : ignore_photos(b)

SpecExtract == InitIngest /\ [][NextExtract]_vars

(***************************************************************************)
(* The similarity analysis beside the operator's corrections: a set with   *)
(* a front and two suffix-less scans is scanned, analysed, corrected by    *)
(* POST /update_date or ignored, and analysed again.  The scan and the     *)
(* analysis run between the requests, and one step of the corrections     *)
(* may fail.                                                               *)
(***************************************************************************)
InitRegroup ==
    /\ fs = [p \in {F1, V1, V2} |-> NewFile(p)]
    /\ db = [rows |-> {}, next |-> 1]
    /\ now = 0
    /\ cache = NoCache
    /\ req = NoReq
    /\ tx = IdleTx
    /\ events = MaxEvents - 1
    /\ requests = 0
    /\ staged = NoBatch
    /\ Rest

NextRegroup ==
    \/ scan_photos
    \/ Idle /\ compute_embeddings_for_all_photos
    \/ Idle /\ find_similar_groups
    \/ Idle /\ create_photo_groups_in_database
    \/ \E b \in BaseNames : ignore_photos(b)
    \/ \E b \in BaseNames, d \in Dates : update_date(b, d)
    \/ SkipFile
    \/ BeginFile
    \/ Hash
    \/ Backup
    \/ Mutate
    \/ Verify
    \/ Move
    \/ Commit
    \/ Cleanup
    \/ Restore
    \/ Collect
    \/ Respond

SpecRegroup == InitRegroup /\ [][NextRegroup]_vars

(***************************************************************************)
(* Calls of the catalog: the methods of DatabaseManager that write, the    *)
(* two reads that go through execute_with_retry, and execute_with_retry    *)
(* itself with any function and any max_retries.  An invocation of the     *)
(* function returns, fails with "database is locked", fails with another   *)
(* sqlite3.OperationalError, or fails with another exception.  Wait times  *)
(* are in milliseconds.                                                    *)
(***************************************************************************)
WriteOperations ==
    {"batch_add_photos", "add_photo", "mark_photo_processed", "cleanup_missing_photos",
     "mark_photo_ignored", "create_photo_group", "add_photo_to_group",
     "store_photo_embedding"}

\* the methods whose body is self.execute_with_retry(...)
RetriedOperations == {"get_unprocessed_photos", "get_photo_groups"}

Operations == WriteOperations \cup RetriedOperations \cup {"operation_func"}

\* does the call of the operation go through execute_with_retry
Wrapped(op) == op \in RetriedOperations \cup {"operation_func"}

Outcomes == {"ok", "locked", "operational", "error"}

\* values of random.uniform(0, 1), in milliseconds
Jitters == {0, 999}

\* 2 ** attempt
RECURSIVE Pow2(_)
Pow2(k) == IF k = 0 THEN 1 ELSE 2 * Pow2(k - 1)

\* wait_time = (2 ** attempt) + random.uniform(0, 1)
WaitTime(attempt, jitter) == 1000 * Pow2(attempt) + jitter

\* a loop that goes on after every failure but the last
RetryAlways(outcome, attempt, max_retries) ==
    outcome # "ok" /\ attempt < max_retries - 1

\* "database is locked" in str(e).lower() and attempt < max_retries - 1
ShouldRetry(outcome, attempt, max_retries) ==
    outcome = "locked" /\ attempt < max_retries - 1

\* the caller calls the method: the wrapped reads use the default
\* max_retries, a method that is not wrapped runs once
Call(op, max_retries) ==
    /\ call.status = "idle"
    /\ op \in RetriedOperations => max_retries = default_max_retries
    /\ op \in WriteOperations => max_retries = 1
    /\ call' = [op |-> op, max_retries |-> max_retries, invocations |-> <<>>,
                waits |-> <<>>, status |-> "running"]
    /\ UNCHANGED <<fs, db, now, cache, req, tx, events, requests, staged, sim, ret, sched, other, naming,
                   schema, scans, analysis>>

\* one pass of the loop of execute_with_retry; a method that is not wrapped
\* runs its statements once, and what they raise reaches the caller
Invoke(outcome, jitter) ==
    /\ call.status = "running"
    /\ Len(call.invocations) < call.max_retries
    /\ LET attempt == Len(call.invocations) IN
       call' = [call EXCEPT
                  !.invocations = Append(@, outcome),
                  !.waits = IF Wrapped(call.op) /\ ShouldRetry(outcome, attempt, call.max_retries)
                            THEN Append(@, WaitTime(attempt, jitter)) ELSE @,
                  !.status = IF outcome = "ok" THEN "returned"
                             ELSE IF Wrapped(call.op) /\
                                     ShouldRetry(outcome, attempt, call.max_retries)
                             THEN "running"
                             ELSE "raised"]
    /\ UNCHANGED <<fs, db, now, cache, req, tx, events, requests, staged, sim, ret, sched, other, naming,
                   schema, scans, analysis>>

Attempt == \E outcome \in Outcomes, jitter \in Jitters : Invoke(outcome, jitter)

InitRetry ==
    /\ fs = [p \in UnprocFiles |-> NewFile(p)]
    /\ db = [rows |-> {}, next |-> 1]
    /\ now = 0
    /\ cache = NoCache
    /\ req = NoReq
    /\ tx = IdleTx
    /\ events = 0
    /\ requests = 0
    /\ staged = NoBatch
    /\ Rest

NextRetry ==
    \/ \E op \in Operations, max_retries \in 1..MaxRetries : Call(op, max_retries)
    \/ Attempt

\* the thread that runs the call goes on running
SpecRetry == InitRetry /\ [][NextRetry]_vars /\ WF_vars(Attempt)

(***************************************************************************)
(* PhotoScheduler.start and the runs of run_full_photo_processing that the *)
(* two jobs start on the threads of the BackgroundScheduler: the job       *)
(* 'initial_photo_scan' (trigger 'date', run_date = now) and the job       *)
(* 'photo_processing' (IntervalTrigger, max_instances = 1).  A run sleeps  *)
(* up to 30 seconds, scans, analyses.  max_instances counts the running    *)
(* instances of one job: a firing of the interval trigger is skipped while *)
(* an instance of 'photo_processing' runs.  The interval is an hour or     *)
(* more, so the trigger does not fire while the initial run still sleeps;  *)
(* how long the scan and the analysis take depends on the library.         *)
(***************************************************************************)
Jobs == {"initial", "interval"}

\* a run of run_full_photo_processing is between its first and last statement
InFlight(pc) == pc \in {"sleep", "scan", "analysis"}

RunOf(job) == IF job = "initial" THEN sched.initial ELSE sched.interval

SetRun(job, pc) ==
    IF job = "initial" THEN [sched EXCEPT !.initial = pc] ELSE [sched EXCEPT !.interval = pc]

\* PhotoScheduler.start, with SCAN_INTERVAL_HOURS > 0: both jobs are added,
\* and the date job is due at once
start ==
    /\ ~sched.started
    /\ sched' = [sched EXCEPT !.started = TRUE, !.initial = "sleep"]
    /\ UNCHANGED <<fs, db, now, cache, req, tx, events, requests, staged, sim, ret, call, other, naming,
                   schema, scans, analysis>>

\* the interval trigger fires: the executor starts an instance of
\* 'photo_processing' unless max_instances instances of that job are running
IntervalFires ==
    /\ sched.started
    /\ sched.initial # "sleep"
    /\ sched.fired < MaxFires
    /\ sched' = [sched EXCEPT !.fired = @ + 1,
                              !.interval = IF InFlight(@) THEN @ ELSE "sleep"]
    /\ UNCHANGED <<fs, db, now, cache, req, tx, events, requests, staged, sim, ret, call, other, naming,
                   schema, scans, analysis>>

\* time.sleep(delay) returns
Wake(job) ==
    /\ RunOf(job) = "sleep"
    /\ sched' = SetRun(job, "scan")
    /\ UNCHANGED <<fs, db, now, cache, req, tx, events, requests, staged, sim, ret, call, other, naming,
                   schema, scans, analysis>>

\* run_photo_scan: scan_photos on a new PhotoManager
run_photo_scan(job) ==
    /\ RunOf(job) = "scan"
    /\ db.next + Cardinality(NewPhotos(fs, db.rows)) - 1 <= MaxId
    /\ db' \in ScanResults(fs, db)
    /\ sched' = SetRun(job, "analysis")
    /\ UNCHANGED <<fs, now, cache, req, tx, events, requests, staged, sim, ret, call, other, naming,
                   schema, scans, analysis>>

\* run_similarity_analysis: the embeddings, the clusters, the groups
run_similarity_analysis(job) ==
    /\ RunOf(job) = "analysis"
    /\ LET embedded ==
              sim.embeddings \cup
              {[photo_id |-> r.id, embedding_data |-> extract_features(fs, r.filepath)] :
                  r \in {x \in PhotosToProcess(db.rows, sim.embeddings) : Exists(fs, x.filepath)}}
       IN \E groups \in Orderings(Clusters(get_photo_embeddings(db.rows, embedded))) :
             /\ sim.next + Len(groups) - 1 <= MaxGroups
             /\ sim' = CreateGroups([sim EXCEPT !.embeddings = embedded], db.rows, groups)
    /\ sched' = SetRun(job, IF job = "initial" THEN "done" ELSE "none")
    /\ UNCHANGED <<fs, db, now, cache, req, tx, events, requests, staged, ret, call, other, naming,
                   schema, scans, analysis>>

InitSched ==
    /\ \E present \in SUBSET {F1, V1, V2} : fs = [p \in present |-> NewFile(p)]
    /\ db = [rows |-> {}, next |-> 1]
    /\ now = 0
    /\ cache = NoCache
    /\ req = NoReq
    /\ tx = IdleTx
    /\ events = 0
    /\ requests = 0
    /\ staged = NoBatch
    /\ Rest

NextSched ==
    \/ start
    \/ IntervalFires
    \/ \E job \in Jobs : Wake(job)
    \/ \E job \in Jobs : run_photo_scan(job)
    \/ \E job \in Jobs : run_similarity_analysis(job)

SpecSched == InitSched /\ [][NextSched]_vars

(***************************************************************************)
(* One run of run_full_photo_processing after the other, statement by      *)
(* statement: run_photo_scan, then, if it returned True, the three calls   *)
(* of run_similarity_analysis, then the return.  Any of the calls may      *)
(* raise; run_photo_scan and run_similarity_analysis catch the exception   *)
(* and return False.  trace lists the calls of the run that returned.      *)
(***************************************************************************)
\* a run that reports the scan alone
ScanSucceeded(scan_success, analysis_success) == scan_success

\* return scan_success and analysis_success
BothSucceeded(scan_success, analysis_success) == scan_success /\ analysis_success

Step(pc, done) == [sched EXCEPT !.run.pc = pc, !.run.trace = Append(@, done)]

\* an exception: no call is made after it
Raised ==
    /\ events < MaxEvents
    /\ events' = events + 1
    /\ sched' = [sched EXCEPT !.run.pc = "return"]

\* the trigger fires and time.sleep(delay) returns
RunStarts ==
    /\ sched.run.pc \in {"none", "returned"}
    /\ sched.fired < MaxFires
    /\ sched' = [sched EXCEPT !.fired = @ + 1, !.run = [NoRun EXCEPT !.pc = "scan"]]
    /\ UNCHANGED <<fs, db, now, cache, req, tx, events, requests, staged, sim, ret, call, other,
                   naming, schema, scans, analysis>>

\* scan_success = run_photo_scan()
RunScan ==
    /\ sched.run.pc = "scan"
    /\ \/ /\ db.next + Cardinality(NewPhotos(fs, db.rows)) - 1 <= MaxId
          /\ db' \in ScanResults(fs, db)
          /\ sched' = [Step("embed", "scan_photos") EXCEPT !.run.scan_success = TRUE]
          /\ UNCHANGED events
       \/ /\ Raised
          /\ UNCHANGED db
    /\ UNCHANGED <<fs, now, cache, req, tx, requests, staged, sim, ret, call, other, naming,
                   schema, scans, analysis>>

\* analyzer.compute_embeddings_for_all_photos()
RunEmbed ==
    /\ sched.run.pc = "embed"
    /\ \/ /\ sim' = [sim EXCEPT !.embeddings = @ \cup
                      {[photo_id |-> r.id, embedding_data |-> extract_features(fs, r.filepath)] :
                          r \in {x \in PhotosToProcess(db.rows, sim.embeddings) :
                                    Exists(fs, x.filepath)}}]
          /\ sched' = Step("cluster", "compute_embeddings_for_all_photos")
          /\ UNCHANGED events
       \/ /\ Raised
          /\ UNCHANGED sim
    /\ UNCHANGED <<fs, db, now, cache, req, tx, requests, staged, ret, call, other, naming,
                   schema, scans, analysis>>

\* groups = analyzer.find_similar_groups(eps=eps, min_samples=min_samples)
RunCluster ==
    /\ sched.run.pc = "cluster"
    /\ \/ /\ \E groups \in Orderings(Clusters(get_photo_embeddings(db.rows, sim.embeddings))) :
                sim' = [sim EXCEPT !.found = groups]
          /\ sched' = Step("store", "find_similar_groups")
          /\ UNCHANGED events
       \/ /\ Raised
          /\ UNCHANGED sim
    /\ UNCHANGED <<fs, db, now, cache, req, tx, requests, staged, ret, call, other, naming,
                   schema, scans, analysis>>

\* analyzer.create_photo_groups_in_database(groups); return True
RunStore ==
    /\ sched.run.pc = "store"
    /\ \/ /\ sim.next + Len(sim.found) - 1 <= MaxGroups
          /\ sim' = [CreateGroups(sim, db.rows, sim.found) EXCEPT !.found = <<>>]
          /\ sched' = [Step("return", "create_photo_groups_in_database")
                         EXCEPT !.run.analysis_success = TRUE]
          /\ UNCHANGED events
       \/ /\ Raised
          /\ sim' = [sim EXCEPT !.found = <<>>]
    /\ UNCHANGED <<fs, db, now, cache, req, tx, requests, staged, ret, call, other, naming,
                   schema, scans, analysis>>

\* return scan_success and analysis_success
RunReturns ==
    /\ sched.run.pc = "return"
    /\ sched' = [sched EXCEPT
                   !.run.pc = "returned",
                   !.run.returned = BothSucceeded(sched.run.scan_success,
                                                  sched.run.analysis_success)]
    /\ UNCHANGED <<fs, db, now, cache, req, tx, events, requests, staged, sim, ret, call, other,
                   naming, schema, scans, analysis>>

NextRun ==
    \/ RunStarts
    \/ RunScan
    \/ RunEmbed
    \/ RunCluster
    \/ RunStore
    \/ RunReturns

SpecRun == InitSched /\ [][NextRun]_vars

(***************************************************************************)
(* Two requests at a time.  app.run(threaded=True) serves every request on *)
(* a thread of its own, and no handler takes a lock: the second thread may *)
(* run any step between two steps of the first.  req and tx are the        *)
(* request and the correction of the thread that runs; other holds those   *)
(* of the thread that waits, and Switch lets the two change places.        *)
(* Nothing befalls the run from outside here: no operation fails.          *)
(***************************************************************************)
Switch ==
    /\ req' = other.req
    /\ tx' = other.tx
    /\ other' = [req |-> req, tx |-> tx]
    /\ UNCHANGED <<fs, db, now, cache, events, requests, staged, sim, ret, call, sched, naming,
                   schema, scans, analysis>>

InitServe ==
    /\ fs = [p \in UnprocFiles |-> NewFile(p)]
    /\ db = [rows |-> {}, next |-> 1]
    /\ now = 0
    /\ cache = NoCache
    /\ req = NoReq
    /\ tx = IdleTx
    /\ events = MaxEvents
    /\ requests = 0
    /\ staged = NoBatch
    /\ Rest

NextServe ==
    \/ scan_photos
    \/ \E b \in BaseNames, d \in Dates : update_date(b, d)
    \/ SkipFile
    \/ BeginFile
    \/ Hash
    \/ Backup
    \/ Mutate
    \/ Verify
    \/ Move
    \/ Commit
    \/ Cleanup
    \/ Restore
    \/ Collect
    \/ Respond
    \/ Switch

SpecServe == InitServe /\ [][NextServe]_vars

(***************************************************************************)
(* The naming functions on their own: a file name made of a date prefix,   *)
(* stems, side suffixes and extensions in any order and letter case, as    *)
(* the scan hands it to extract_base_name and _determine_file_type.        *)
(***************************************************************************)
Stems == {"p"}
Sides == {"_a", "_b", "_A", "_B"}
Extensions == {".jpg", ".JPEG", ".png"}

NamePartsAlphabet == Dates \cup Stems \cup Sides \cup Extensions

FileNames == UNION {[1..k -> NamePartsAlphabet] : k \in 1..MaxParts}

\* base_name = self.extract_base_name(file); self._determine_file_type(file)
NameFile ==
    /\ naming.file_type = "none"
    /\ naming' = [naming EXCEPT !.base_name = base_name_of(naming.filename),
                                !.file_type = file_type_of(naming.filename)]
    /\ UNCHANGED <<fs, db, now, cache, req, tx, events, requests, staged, sim, ret, call, sched,
                   other, schema, scans, analysis>>

InitNames ==
    /\ fs = [p \in UnprocFiles |-> NewFile(p)]
    /\ db = [rows |-> {}, next |-> 1]
    /\ now = 0
    /\ cache = NoCache
    /\ req = NoReq
    /\ tx = IdleTx
    /\ events = 0
    /\ requests = 0
    /\ staged = NoBatch
    /\ sim = NoTables /\ ret = NULL /\ call = NoCall /\ sched = NoSched /\ other = NoThread
    /\ schema = NewStore
    /\ scans = NoScan
    /\ analysis = NoAnalysis
    /\ \E filename \in FileNames : naming = [NoName EXCEPT !.filename = filename]

NextNames == NameFile

SpecNames == InitNames /\ [][NextNames]_vars

(***************************************************************************)
(* The name move_photo_to_processed gives a file, character by character.  *)
(* A file name is a sequence of characters; the names handed in are made   *)
(* of a few words and the extension.                                       *)
(***************************************************************************)
MaxWords == 3         \* words of the longest file name handed to the relocation

Digit == {"0", "1", "2", "3", "4", "5", "6", "7", "8", "9"}

Words ==
    {<<"2", "0", "0", "1", "-", "0", "2", "-", "0", "3">>,
     <<"2", "0", "0", "4", "-", "0", "5", "-", "0", "6">>,
     <<"n", "e", "w", "-", "y", "o", "r", "k", "-", "1">>,
     <<"_">>,
     <<"p">>}

RECURSIVE Concat(_)
Concat(words) == IF words = <<>> THEN <<>> ELSE Head(words) \o Concat(Tail(words))

OriginalFilenames ==
    {Concat(w) \o <<".", "j", "p", "g">> : w \in UNION {[1..k -> Words] : k \in 1..MaxWords}}

\* the dates update_photo_date is called with: the date input of the page
\* sends them zero-padded, a client of its own may leave the zeros out
TargetDates ==
    {<<"2", "0", "0", "1", "-", "0", "2", "-", "0", "3">>,
     <<"2", "0", "0", "1", "-", "2", "-", "3">>}

StartsWith(s, prefix) == Len(s) >= Len(prefix) /\ SubSeq(s, 1, Len(prefix)) = prefix

Count(s, c) == Cardinality({i \in 1..Len(s) : s[i] = c})

\* the places of the character c in s
Places(s, c) == {i \in 1..Len(s) : s[i] = c}

RECURSIVE ZeroPad(_, _)
ZeroPad(s, width) == IF Len(s) >= width THEN s ELSE ZeroPad(<<"0">> \o s, width)

\* datetime.strptime(date, '%Y-%m-%d').strftime('%Y-%m-%d'), of a date with
\* two dashes
date_prefix_of(date) ==
    LET first == CHOOSE i \in Places(date, "-") : \A j \in Places(date, "-") : i <= j
        second == CHOOSE i \in Places(date, "-") : \A j \in Places(date, "-") : j <= i
    IN  ZeroPad(SubSeq(date, 1, first - 1), 4) \o <<"-">>
        \o ZeroPad(SubSeq(date, first + 1, second - 1), 2) \o <<"-">>
        \o ZeroPad(SubSeq(date, second + 1, Len(date)), 2)

\* base_filename: the name kept, or its first eleven characters replaced,
\* or the date prefix put in front
base_filename_of(original_filename, date_prefix) ==
    IF StartsWith(original_filename, date_prefix \o <<"_">>)
    THEN original_filename
    ELSE IF /\ Len(original_filename) > 10
            /\ original_filename[11] = "_"
            /\ Count(SubSeq(original_filename, 1, 10), "-") = 2
         THEN date_prefix \o <<"_">> \o SubSeq(original_filename, 12, Len(original_filename))
         ELSE date_prefix \o <<"_">> \o original_filename

\* os.path.splitext: the extension starts at the last dot, unless only dots
\* come before it
splitext(filename) ==
    LET dots == {i \in Places(filename, ".") : \E j \in 1..(i - 1) : filename[j] # "."}
        last == IF dots = {} THEN Len(filename) + 1
                ELSE CHOOSE i \in dots : \A j \in dots : j <= i
    IN  [root |-> SubSeq(filename, 1, last - 1), ext |-> SubSeq(filename, last, Len(filename))]

\* values of secrets.token_hex(3) and of str(int(time.time() * 1000))
Disambiguators == {<<"a", "1", "b", "2", "c", "3">>, <<"1", "7">>}

\* new_filename: base_filename, or with a suffix when that name exists
new_filenames(original_filename, date, exists) ==
    LET base_filename == base_filename_of(original_filename, date_prefix_of(date))
        parts == splitext(base_filename)
    IN  IF ~exists THEN {base_filename}
        ELSE {parts.root \o <<"_">> \o suffix \o parts.ext : suffix \in Disambiguators}

\* move_photo_to_processed, as far as the name goes
RenameFile ==
    /\ naming.new_filename = <<>>
    /\ \E new_filename \in new_filenames(naming.filename, naming.date, naming.exists) :
          naming' = [naming EXCEPT !.new_filename = new_filename]
    /\ UNCHANGED <<fs, db, now, cache, req, tx, events, requests, staged, sim, ret, call, sched,
                   other, schema, scans, analysis>>

InitRename ==
    /\ fs = [p \in UnprocFiles |-> NewFile(p)]
    /\ db = [rows |-> {}, next |-> 1]
    /\ now = 0
    /\ cache = NoCache
    /\ req = NoReq
    /\ tx = IdleTx
    /\ events = 0
    /\ requests = 0
    /\ staged = NoBatch
    /\ sim = NoTables /\ ret = NULL /\ call = NoCall /\ sched = NoSched /\ other = NoThread
    /\ schema = NewStore
    /\ scans = NoScan
    /\ analysis = NoAnalysis
    /\ \E filename \in OriginalFilenames, date \in TargetDates, exists \in BOOLEAN :
          naming = [NoName EXCEPT !.filename = filename, !.date = date, !.exists = exists]

NextRename == RenameFile

SpecRename == InitRename /\ [][NextRename]_vars

(***************************************************************************)
(* The startup of the store: DatabaseManager.__init__ runs init_database,  *)
(* run_migrations and migrate_from_json on whatever store the database     *)
(* file holds.  A table is its columns and its rows; a row is a function   *)
(* from the columns of its table to values.  sqlite3 runs each DDL         *)
(* statement in autocommit mode, so each one is durable as it executes.    *)
(***************************************************************************)
\* CREATE TABLE without IF NOT EXISTS after a DROP: the table as new
CreateTable(store, t) ==
    [store EXCEPT !.tables = [u \in DOMAIN @ \cup {t} |-> IF u = t THEN NewTable(t) ELSE @[u]]]

\* CREATE TABLE IF NOT EXISTS
CreateTableIfNotExists(store, t) ==
    IF t \in DOMAIN store.tables THEN store
    ELSE [store EXCEPT !.tables = [u \in DOMAIN @ \cup {t} |->
                                      IF u = t THEN NewTable(t) ELSE @[u]]]

\* CREATE INDEX IF NOT EXISTS
CreateIndexIfNotExists(store, i) ==
    IF i \in store.indexes THEN store ELSE [store EXCEPT !.indexes = @ \cup {i}]

RECURSIVE CreateTables(_, _)
CreateTables(store, order) ==
    IF order = <<>> THEN store
    ELSE CreateTables(CreateTableIfNotExists(store, Head(order)), Tail(order))

RECURSIVE CreateIndexes(_, _)
CreateIndexes(store, order) ==
    IF order = <<>> THEN store
    ELSE CreateIndexes(CreateIndexIfNotExists(store, Head(order)), Tail(order))

init_database(store) == CreateIndexes(CreateTables(store, TableOrder), IndexOrder)

\* ALTER TABLE t ADD COLUMN c: the rows the table holds read NULL in c
AddColumn(store, t, c) ==
    [store EXCEPT !.tables[t] =
        [columns |-> @.columns \cup {c},
         rows |-> {[k \in DOMAIN r \cup {c} |-> IF k \in DOMAIN r THEN r[k] ELSE "NULL"] :
                       r \in @.rows}]]

run_migrations(store) ==
    IF "default_date" \notin store.tables["photos"].columns
    THEN AddColumn(store, "photos", "default_date")
    ELSE store

\* the row of migrate_from_json's INSERT OR IGNORE: four columns given, id and
\* the two DEFAULT CURRENT_TIMESTAMP columns filled, the others NULL
JsonRow(columns, filepath) ==
    [k \in columns |->
        IF k = "filepath" THEN filepath
        ELSE IF k \in {"id", "base_name", "file_type", "processed_date", "created_at",
                       "updated_at"} THEN "new"
        ELSE "NULL"]

\* migrate_from_json: INSERT OR IGNORE of the listed filepath, then the list
\* file is renamed
migrate_from_json(store) ==
    IF store.json = "none" THEN store
    ELSE [store EXCEPT
            !.tables["photos"].rows =
                IF \E r \in @ : r["filepath"] = store.json THEN @
                ELSE @ \cup {JsonRow(store.tables["photos"].columns, store.json)},
            !.json = "none"]

Startup ==
    /\ schema.starts < MaxStarts
    /\ schema' = [migrate_from_json(run_migrations(init_database(schema)))
                    EXCEPT !.starts = schema.starts + 1]
    /\ UNCHANGED <<fs, db, now, cache, req, tx, events, requests, staged, sim, ret, call, sched,
                   other, naming, scans, analysis>>

\* the stores a database file can hold when the program starts on it: any
\* of the tables, with or without the default_date column that
\* run_migrations adds, each table with or without a row, any of the indexes
\* of the tables it has, and a legacy list file (of a filepath the photos
\* table holds, or of another) or none
LegacyTable(t, migrated, filled) ==
    LET columns == IF migrated THEN TableColumns[t] ELSE TableColumns[t] \ {"default_date"}
    IN  [columns |-> columns,
         rows |-> IF filled THEN {[k \in columns |-> "old"]} ELSE {}]

LegacyStore(present, migrated, filled, indexes, json) ==
    [tables |-> [t \in present |-> LegacyTable(t, migrated, t \in filled)],
     indexes |-> {i \in indexes : IndexTable[i] \in present},
     json |-> json, starts |-> 0]

Stores ==
    {LegacyStore(present, migrated, filled, indexes, json) :
        present \in SUBSET DOMAIN TableColumns, migrated \in BOOLEAN,
        filled \in SUBSET DOMAIN TableColumns, indexes \in SUBSET DOMAIN IndexTable,
        json \in {"none", "old", "new"}}

InitSchema ==
    /\ fs = [p \in UnprocFiles |-> NewFile(p)]
    /\ db = [rows |-> {}, next |-> 1]
    /\ now = 0
    /\ cache = NoCache
    /\ req = NoReq
    /\ tx = IdleTx
    /\ events = 0
    /\ requests = 0
    /\ staged = NoBatch
    /\ sim = NoTables /\ ret = NULL /\ call = NoCall /\ sched = NoSched /\ other = NoThread
    /\ naming = NoName
    /\ scans = NoScan
    /\ analysis = NoAnalysis
    /\ schema \in Stores

NextSchema == Startup

SpecSchema == InitSchema /\ [][NextSchema]_vars

(***************************************************************************)
(* scan_photos on a PhotoManager that lives on, like the one the web       *)
(* requests share: the result of a call is cached for cache_timeout        *)
(* seconds under the key 'scan_photos'.                                    *)
(***************************************************************************)
\* a loop body that puts the file into its slot and keeps no displaced photo
ScanFileOverwriting(pairs, filepath) ==
    LET base_name == extract_base_name(filepath.name)
        file_type == determine_file_type(filepath.name)
        pair == PairOf(pairs, base_name)
    IN  PutPair(pairs, base_name,
            IF file_type = "front" THEN [pair EXCEPT !.front = filepath]
            ELSE IF file_type = "back" THEN [pair EXCEPT !.back = filepath]
            ELSE IF pair.front = NoPath THEN [pair EXCEPT !.front = filepath]
            ELSE IF pair.back = NoPath THEN [pair EXCEPT !.back = filepath]
            ELSE [pair EXCEPT !.variants = Append(@, filepath)])

\* the body of the loop over the walked files
ScanFile(pairs, filepath) ==
    LET base_name == extract_base_name(filepath.name)
        file_type == determine_file_type(filepath.name)
        pair == PairOf(pairs, base_name)
    IN  PutPair(pairs, base_name,
            IF file_type = "front"
            THEN [pair EXCEPT !.front = filepath,
                              !.variants = IF pair.front # NoPath
                                           THEN Append(@, pair.front) ELSE @]
            ELSE IF file_type = "back"
            THEN [pair EXCEPT !.back = filepath,
                              !.variants = IF pair.back # NoPath
                                           THEN Append(@, pair.back) ELSE @]
            ELSE IF pair.front = NoPath THEN [pair EXCEPT !.front = filepath]
            ELSE IF pair.back = NoPath THEN [pair EXCEPT !.back = filepath]
            ELSE [pair EXCEPT !.variants = Append(@, filepath)])

RECURSIVE ScanFiles(_, _)
ScanFiles(pairs, walk) ==
    IF walk = <<>> THEN pairs ELSE ScanFiles(ScanFile(pairs, Head(walk)), Tail(walk))

\* what one walk of the tree makes of the files and the catalog: the
\* catalog with the new photos added, and the sets with a front or a back
\* thumbnails requested for every walked file, and before the insert
ThumbnailsOfWalk(walk, new_photo_paths) ==
    IF walk = <<>> THEN <<>>
    ELSE <<[op |-> "batch_generate_thumbnails", paths |-> walk],
           [op |-> "batch_add_photos", paths |-> new_photo_paths]>>

\* the calls after the walk, in their order: if new_photos_to_add, the
\* batch insert, and then the thumbnails of the same paths
AfterWalk(walk, new_photo_paths) ==
    IF new_photo_paths = <<>> THEN <<>>
    ELSE <<[op |-> "batch_add_photos", paths |-> new_photo_paths],
           [op |-> "batch_generate_thumbnails", paths |-> new_photo_paths]>>

Scanned(files, d, walk) ==
    LET new_photos_to_add ==
            SelectSeq(walk, LAMBDA p : p \notin get_all_photo_paths(d.rows))
    IN  [db |-> batch_add_photos(d, [i \in 1..Len(new_photos_to_add) |->
                                        Staged(files, new_photos_to_add[i])]),
         result |-> FrontOrBack(ScanFiles(<<>>, walk)),
         walk |-> walk,
         effects |-> AfterWalk(walk, new_photos_to_add)]

ScanOutcomes(files, d) == {Scanned(files, d, walk) : walk \in WalkOrders(Walked(files, d.rows))}

cached_scan_photos ==
    /\ Idle
    /\ scans.calls < MaxCalls
    /\ IF StillValid(scans.at, now)
       THEN /\ scans' = [scans EXCEPT !.calls = @ + 1, !.walked = FALSE,
                                      !.returned = scans.value,
                                      !.walk = <<>>, !.effects = <<>>]
            /\ db' = db
       ELSE /\ db.next + Cardinality(NewPhotos(fs, db.rows)) - 1 <= MaxId
            /\ \E scanned \in ScanOutcomes(fs, db) :
                  /\ db' = scanned.db
                  /\ scans' = [at |-> now, value |-> scanned.result,
                               calls |-> scans.calls + 1, walked |-> TRUE,
                               returned |-> scanned.result,
                               walk |-> scanned.walk, effects |-> scanned.effects]
    /\ UNCHANGED <<fs, now, cache, req, tx, events, requests, staged, sim, ret, call, sched,
                   other, naming, schema, analysis>>

\* the requests served one at a time, with no fault and no arrival, while
\* the clock runs and the scheduler's scan and the manager's scan are called
InitCache == InitServe

NextCache ==
    \/ Tick
    \/ scan_photos
    \/ cached_scan_photos
    \/ \E b \in BaseNames : ignore_photos(b)
    \/ \E b \in BaseNames, d \in Dates : update_date(b, d)
    \/ SkipFile
    \/ BeginFile
    \/ Hash
    \/ Backup
    \/ Mutate
    \/ Verify
    \/ Move
    \/ Commit
    \/ Cleanup
    \/ Collect
    \/ Respond

SpecCache == InitCache /\ [][NextCache]_vars

(***************************************************************************)
(* The scan over a tree of fronts, backs and suffix-less files of one base *)
(* name, in the directory and in a subdirectory, some of them arrived      *)
(* after the last scan, with a catalog that earlier scans and the          *)
(* operator's ignore requests have written.                                *)
(***************************************************************************)
InitScan ==
    /\ \E present \in {S \in SUBSET IngestFiles : Cardinality(S) <= MaxFiles + 1} :
          /\ fs = [p \in present |-> NewFile(p)]
          /\ \E known \in SUBSET present :
                db \in ScanResults([p \in known |-> NewFile(p)], [rows |-> {}, next |-> 1])
    /\ now = 0
    /\ cache = NoCache
    /\ req = NoReq
    /\ tx = IdleTx
    /\ events = 0
    /\ requests = 0
    /\ staged = NoBatch
    /\ Rest

NextScan ==
    \/ Tick
    \/ cached_scan_photos
    \/ \E b \in BaseNames : ignore_photos(b)

SpecScan == InitScan /\ [][NextScan]_vars

(***************************************************************************)
(* The two lifecycle writes of the catalog on their own, called the way    *)
(* update_photo_date and ignore_photo_set call them: with the path of a    *)
(* file of the unprocessed tree, and, as the new path, that path itself    *)
(* (the move failed) or a path move_photo_to_processed returns.            *)
(***************************************************************************)
NewPaths(old_filepath) ==
    {old_filepath} \cup
    {ProcessedPath(old_filepath, date, uniq) : date \in Dates, uniq \in {""} \cup RandomSuffixes}

\* self.db.mark_photo_processed(filepath, new_filepath); ret is the rowcount
MarkProcessed(old_filepath, new_filepath) ==
    /\ ~UniqueViolation(db.rows, old_filepath, new_filepath)
    /\ db' = [db EXCEPT !.rows = mark_photo_processed(@, old_filepath, new_filepath, now)]
    /\ ret' = Cardinality({r \in db.rows : r.filepath = old_filepath})
    /\ UNCHANGED <<fs, now, cache, req, tx, events, requests, staged, sim, call, sched, other,
                   naming, schema, scans, analysis>>

\* self.db.mark_photo_ignored(filepath)
MarkIgnored(filepath) ==
    /\ db' = [db EXCEPT !.rows = mark_photo_ignored(@, filepath, now)]
    /\ ret' = Cardinality({r \in db.rows : r.filepath = filepath})
    /\ UNCHANGED <<fs, now, cache, req, tx, events, requests, staged, sim, call, sched, other,
                   naming, schema, scans, analysis>>

\* the catalog a first scan leaves of some of three files of one set
InitWrites ==
    /\ \E present \in SUBSET {F1, F3, V1} :
          /\ fs = [p \in present |-> NewFile(p)]
          /\ db \in ScanResults(fs, [rows |-> {}, next |-> 1])
    /\ now = TickSeconds
    /\ cache = NoCache /\ req = NoReq /\ tx = IdleTx /\ events = 0
    /\ requests = 0 /\ staged = NoBatch /\ Rest

NextWrites ==
    \/ \E old_filepath \in IngestFiles : \E new_filepath \in NewPaths(old_filepath) :
          MarkProcessed(old_filepath, new_filepath)
    \/ \E filepath \in IngestFiles : MarkIgnored(filepath)

SpecWrites == InitWrites /\ [][NextWrites]_vars

(***************************************************************************)
(* find_similar_groups as a function of the stored embeddings, eps and     *)
(* min_samples.  A feature vector is a point on a line and the distance    *)
(* of two photos the distance of their points, so that the distance        *)
(* matrix is symmetric with a zero diagonal; eps counts the same units.    *)
(* NULL stands for a blob that pickle.loads rejects.                       *)
(***************************************************************************)
Points == 0..4

EpsValues == {1, 2}

MinSamplesValues == 1..4

Abs(x) == IF x < 0 THEN -x ELSE x

\* the loop over embeddings_data: the rows whose blob loads, in order
Loaded(embeddings_data) == SelectSeq(embeddings_data, LAMBDA row : row.embedding # NULL)

\* DBSCAN, metric='precomputed': the neighbourhood of point i, itself included
Neighborhood(X, i, eps) == {j \in 1..Len(X) : Abs(X[i].embedding - X[j].embedding) <= eps}

IsCore(X, i, eps, min_samples) == Cardinality(Neighborhood(X, i, eps)) >= min_samples

\* the inner loop of dbscan_inner: the points not yet labelled that the
\* core points of the cluster reach
RECURSIVE Grow(_, _, _, _, _)
Grow(X, eps, min_samples, labelled, cluster) ==
    LET reached == {v \in (1..Len(X)) \ (labelled \cup cluster) :
                       \E c \in cluster : IsCore(X, c, eps, min_samples)
                                          /\ v \in Neighborhood(X, c, eps)}
    IN  IF reached = {} THEN cluster
        ELSE Grow(X, eps, min_samples, labelled, cluster \cup reached)

\* the outer loop of dbscan_inner, from point i on: labels is the clusters
\* found so far, in the order of their labels; the other points are noise
RECURSIVE dbscan_inner(_, _, _, _, _)
dbscan_inner(X, eps, min_samples, i, labels) ==
    IF i > Len(X) THEN labels
    ELSE LET labelled == UNION {labels[k] : k \in 1..Len(labels)} IN
         IF i \in labelled \/ ~IsCore(X, i, eps, min_samples)
         THEN dbscan_inner(X, eps, min_samples, i + 1, labels)
         ELSE dbscan_inner(X, eps, min_samples, i + 1,
                           Append(labels, Grow(X, eps, min_samples, labelled, {i})))

\* clusters[label].append(filepaths[i]) for i in order
FilepathsOf(X, cluster) ==
    LET members == SelectSeq([i \in 1..Len(X) |-> i], LAMBDA i : i \in cluster)
    IN  [k \in 1..Len(members) |-> X[members[k]].filepath]

\* a test that keeps every group
AnyGroup(group) == TRUE

\* groups = [group for group in groups if len(group) > 1]
MoreThanOne(group) == Len(group) > 1

find_similar_groups_of(embeddings_data, eps, min_samples) ==
    IF Len(embeddings_data) < 2 THEN <<>>
    ELSE LET X == Loaded(embeddings_data) IN
         IF Len(X) < 2 THEN <<>>
         ELSE LET labels == dbscan_inner(X, eps, min_samples, 1, <<>>)
                  groups == [k \in 1..Len(labels) |-> FilepathsOf(X, labels[k])]
              IN  SelectSeq(groups, MoreThanOne)

Reverse(seq) == [i \in 1..Len(seq) |-> seq[Len(seq) + 1 - i]]

\* rows that come in the stored order in one execution of the SELECT and in
\* the opposite order in the next
fetchall_either_way(embeddings_data, execution) ==
    IF execution % 2 = 0 THEN embeddings_data ELSE Reverse(embeddings_data)

\* get_photo_embeddings: the rows of one execution of the SELECT.  The
\* statement has no ORDER BY; SQLite walks the same tables by the same plan
\* in every execution on an unchanged store, so the rows come in the same
\* order each time.
fetchall(embeddings_data, execution) == embeddings_data

RunClustering ==
    /\ Len(analysis.runs) < MaxCalls
    /\ analysis' = [analysis EXCEPT !.runs =
           Append(@, find_similar_groups_of(fetchall(analysis.embeddings_data, Len(@)),
                                            analysis.eps, analysis.min_samples))]
    /\ UNCHANGED <<fs, db, now, cache, req, tx, events, requests, staged, sim, ret, call, sched,
                   other, naming, schema, scans>>

\* the embeddings of up to MaxPoints photos, numbered by their feature,
\* stored in the order of the numbers or against it
EmbeddingRows(f) == [i \in 1..Len(f) |-> [filepath |-> i, embedding |-> f[i]]]

StoredEmbeddings ==
    LET numbered == UNION {{f \in [1..n -> Points \cup {NULL}] :
                               \A i \in 1..(n - 1) : f[i] <= f[i + 1]} : n \in 0..MaxPoints}
    IN  {EmbeddingRows(f) : f \in numbered} \cup {Reverse(EmbeddingRows(f)) : f \in numbered}

InitCluster ==
    /\ fs = [p \in UnprocFiles |-> NewFile(p)]
    /\ db = [rows |-> {}, next |-> 1]
    /\ now = 0
    /\ cache = NoCache
    /\ req = NoReq
    /\ tx = IdleTx
    /\ events = 0
    /\ requests = 0
    /\ staged = NoBatch
    /\ sim = NoTables /\ ret = NULL /\ call = NoCall /\ sched = NoSched /\ other = NoThread
    /\ naming = NoName
    /\ schema = NewStore
    /\ scans = NoScan
    /\ analysis \in {[embeddings_data |-> embeddings_data, eps |-> eps,
                       min_samples |-> min_samples, runs |-> <<>>] :
                          embeddings_data \in StoredEmbeddings, eps \in EpsValues,
                          min_samples \in MinSamplesValues}

NextCluster == RunClustering

SpecCluster == InitCluster /\ [][NextCluster]_vars

(***************************************************************************)
(* Properties of the per-file correction.                                  *)
(***************************************************************************)
\* the pre-operation bytes of the file being corrected
IsOriginal(c) == c.src = tx.pre.src /\ c.bytes = tx.pre.bytes

\* the file with its date fields rewritten to the requested date
IsCorrected(c) == c.src = tx.pre.src /\ c.bytes = tx.date

\* the correction has returned False
ReportedFailed == tx.pc = "done" /\ ~tx.success

MoveFailed == tx.pc \in {"commit", "cleanup", "restore", "done"} /\ tx.new_filepath = tx.file

\* C3: relocation never overwrites: no step changes or removes a file that
\* is already in the processed tree, however the disambiguation goes (the
\* timestamp fallback included) and whichever source files map to the name.
C3_RelocationNeverOverwrites ==
    [][\A p \in DOMAIN fs :
          InProcessedTree(p) => Exists(fs', p) /\ fs'[p] = fs[p]]_vars

MutatedOrMoved == ~(Exists(fs, tx.file) /\ fs[tx.file] = tx.pre)

\* C5: the backup is deleted only after the catalog commit has succeeded
\* (the rollback, which puts the backup back in place of the original,
\* aside); while the commit has not succeeded and the original is mutated
\* or moved, the backup exists and holds the pre-operation bytes.
C5_BackupOutlivesCommit ==
    tx.pc # "idle" /\ ~tx.committed /\ MutatedOrMoved =>
        Exists(fs, BackupPath(tx.file)) /\ IsOriginal(fs[BackupPath(tx.file)])

\* C2: in every state of the protocol, between its steps and after a
\* rollback, a valid copy of the photo exists: the pre-operation bytes at
\* the original path or at the backup path, or the corrected file, having
\* passed verification, at the original or the new path.
C2_ValidCopyExists ==
    tx.pc # "idle" =>
        \E p \in {tx.file, BackupPath(tx.file), tx.new_filepath} :
            /\ Exists(fs, p)
            /\ \/ IsOriginal(fs[p])
               \/ tx.verified /\ IsCorrected(fs[p])

\* the file at the original path is damaged and the backup is the only
\* valid copy
C2_Witness ==
    /\ tx.pc = "restore"
    /\ Exists(fs, tx.file) /\ fs[tx.file].bytes = "corrupt"
    /\ Exists(fs, BackupPath(tx.file)) /\ IsOriginal(fs[BackupPath(tx.file)])


(***************************************************************************)
(* Properties of the catalog.                                              *)
(***************************************************************************)
\* C6: no record has both processed_date and ignored_date set, whatever the
\* scans, ignores and corrections that led to the state, those that act on
\* a cached list of unprocessed sets included.
C6_ProcessedXorIgnored ==
    \A r \in db.rows : ~(r.processed_date # NULL /\ r.ignored_date # NULL)

\* C7: the lifecycle only moves forward: once processed_date (or
\* ignored_date) is set for a record, no step leaves the record, or the
\* record that then holds its filepath, with that timestamp cleared.
C7_LifecycleForward ==
    [][\A r \in db.rows, r2 \in db'.rows :
          r2.id = r.id \/ r2.filepath = r.filepath =>
              /\ r.processed_date # NULL => r2.processed_date # NULL
              /\ r.ignored_date # NULL => r2.ignored_date # NULL]_vars

\* a step of the ignore handler or of the correction handler
OperatorStep == requests' # requests \/ req.active

Ids(rows) == {r.id : r \in rows}

\* C8: ignoring a set and correcting a set never insert a record and never
\* delete or re-create one: the records of the catalog are the same
\* records, by id, before and after each of their steps.
C8_OperatorKeepsRecords ==
    [][OperatorStep => Ids(db'.rows) = Ids(db.rows)]_vars

\* C9: no two records have the same filepath; a mark_photo_processed to a
\* path that another record holds does not leave two records with it.
C9_FilepathUnique ==
    \A r1, r2 \in db.rows : r1.filepath = r2.filepath => r1 = r2

\* mark_photo_processed was called with a new path that another record
\* holds, and has raised
C9_Witness ==
    /\ tx.pc = "restore" /\ tx.failed_at = "commit"
    /\ \E r1, r2 \in db.rows :
          r1 # r2 /\ r1.filepath = tx.file /\ r2.filepath = tx.new_filepath

\* C10: batch_add_photos is insert-if-absent and idempotent: a call keeps
\* every record of the catalog as it is, fields and timestamps, leaves a
\* record for every filepath of the batch, and a second call with the same
\* batch changes nothing.
C10_InsertIfAbsent ==
    [][staged'.applied = staged.applied + 1 =>
          /\ \A r \in db.rows : r \in db'.rows
          /\ \A i \in 1..Len(staged.batch) : HasPath(db'.rows, staged.batch[i].filepath)
          /\ staged.applied >= 1 => db' = db]_vars

\* the batch has been applied twice to a catalog that held a processed
\* record for one of its filepaths, with other field values than the batch
C10_Witness ==
    /\ staged.applied = 2
    /\ \E i \in 1..Len(staged.batch), r \in db.rows :
          /\ r.filepath = staged.batch[i].filepath
          /\ r.processed_date # NULL
          /\ r.default_date # staged.batch[i].default_date
          /\ r.file_type # staged.batch[i].file_type

\* mark_photo_processed has returned or raised, the database not being locked
CommitStep == tx.pc = "commit" /\ tx'.pc # "commit" /\ events' = events

\* the record that had old_path has new_path and a processed_date, the
\* other records are as they were, and the call has returned True
MarkedProcessed ==
    /\ tx'.pc = "cleanup" /\ tx'.committed
    /\ \A r \in db.rows :
          IF r.filepath = tx.file
          THEN \E r2 \in db'.rows :
                  /\ r2 = [r EXCEPT !.filepath = tx.new_filepath,
                                    !.processed_date = r2.processed_date]
                  /\ r2.processed_date # NULL
          ELSE r \in db'.rows
    /\ Cardinality(db'.rows) = Cardinality(db.rows)

\* the call has returned False and the catalog is as it was
MarkedNothing == tx'.pc = "cleanup" /\ ~tx'.committed /\ db' = db

\* a step that changes the filepath or the processed_date of a record
\* leaves it with the new path and with the current time as processed_date
FilepathWithProcessedDate ==
    \A r \in db.rows, r2 \in db'.rows :
        r2.id = r.id /\ (r2.filepath # r.filepath \/ r2.processed_date # r.processed_date)
            => r2.filepath = tx.new_filepath /\ r2.processed_date = now

\* a commit that matched no record is not reported as a failure
UnmatchedNotReported ==
    tx.pc = "cleanup" /\ ~tx.committed /\ tx'.pc = "done" => tx'.success

\* C11 as stated: when a record has old_path, mark_photo_processed gives it
\* new_path and a processed_date in one step and returns True; when none
\* has, it returns False, the catalog is unchanged and the correction does
\* not report a failure.
C11_MarkProcessed ==
    [][/\ CommitStep =>
             IF HasPath(db.rows, tx.file) THEN MarkedProcessed ELSE MarkedNothing
       /\ FilepathWithProcessedDate
       /\ UnmatchedNotReported]_vars

\* C11, amended: as stated, provided no other record holds new_path; when
\* another record holds it, the call raises, the catalog is unchanged and
\* the correction is rolled back.
C11_MarkProcessedUnlessTaken ==
    [][/\ CommitStep =>
             IF UniqueViolation(db.rows, tx.file, tx.new_filepath)
             THEN db' = db /\ tx'.pc = "restore" /\ ~tx'.committed
             ELSE IF HasPath(db.rows, tx.file) THEN MarkedProcessed ELSE MarkedNothing
       /\ FilepathWithProcessedDate
       /\ UnmatchedNotReported]_vars

\* a record has just been given the path its file was moved to
C11_Witness ==
    /\ tx.pc = "cleanup" /\ tx.committed /\ tx.new_filepath # tx.file
    /\ \E r \in db.rows : r.filepath = tx.new_filepath /\ r.processed_date # NULL
    /\ ~HasPath(db.rows, tx.file)

(***************************************************************************)
(* Properties of the catalog under the ingestion pipeline.                 *)
(***************************************************************************)
\* the number of slots (front, back, an entry of variants) that hold the path
SlotsHolding(pair, p) ==
    Cardinality({i \in 1..Len(FilesOfPair(pair)) : FilesOfPair(pair)[i] = p})

\* C12: get_unprocessed_photos returns exactly the records whose processed_date
\* and ignored_date are both NULL: each of them is in exactly one slot of the
\* group of its base_name, and every slot that is filled holds such a record
\* of that base_name.
C12_UnprocessedGrouped ==
    \A o \in QueryOrders(db.rows) :
        LET pairs == get_unprocessed_photos(o) IN
        /\ \A r \in UnprocessedRows(db.rows) :
              /\ r.base_name \in DOMAIN pairs
              /\ SlotsHolding(pairs[r.base_name], r.filepath) = 1
        /\ \A b \in DOMAIN pairs :
              \A i \in 1..Len(FilesOfPair(pairs[b])) :
                 FilesOfPair(pairs[b])[i] # NoPath =>
                    \E r \in UnprocessedRows(db.rows) :
                       r.filepath = FilesOfPair(pairs[b])[i] /\ r.base_name = b

\* C13: in every catalog, a base_name has at most one record of file_type
\* front and at most one of file_type back.
C13_OneFrontOneBack ==
    \A r, r2 \in db.rows :
        /\ r.base_name = r2.base_name
        /\ r.file_type = r2.file_type
        /\ r.file_type \in {"front", "back"}
        => r = r2

\* C14: a second scan of an unchanged tree inserts no record and leaves every
\* record as it is: whatever catalog a scan leaves, a scan of the same tree
\* that walks the directory again leaves that catalog.  (A scan served from
\* the cache returns before any catalog call.)
C14_ScanIdempotent ==
    \A d1 \in ScanResults(fs, db) : ScanResults(fs, d1) = {d1}

\* a catalog with records and a tree with files the catalog has no record of:
\* the first scan inserts, the second finds every walked file in the catalog
C14_Witness ==
    /\ db.rows # {}
    /\ NewPhotos(fs, db.rows) # {}
    /\ \A d1 \in ScanResults(fs, db) :
          /\ d1 # db
          /\ Walked(fs, d1.rows) # {}
          /\ ScanResults(fs, d1) = {d1}

\* the step in which create_photo_groups_in_database stores the groups found
StoreStep == sim.pc = "found" /\ sim'.pc = "idle"

\* C15: when a clustering run has stored its groups, the rows of photo_groups
\* and photo_group_members are the groups of that run and nothing else: one
\* group row per group found, made by this run, every member row in one of
\* them and for a photo of the group found; no row of an earlier run remains.
C15_GroupsReplaced ==
    [][StoreStep =>
          /\ Cardinality(sim'.groups) = Len(sim.found)
          /\ \A g \in sim'.groups : g.id >= sim.next
          /\ \A m \in sim'.members :
                \E i \in 1..Len(sim.found) :
                   /\ m.group_id = sim.next + i - 1
                   /\ \E r \in db.rows : r.id = m.photo_id /\ r.filepath \in sim.found[i]]_vars

\* the records whose file is not on disk
Missing(rows, files) == {r \in rows : ~Exists(files, r.filepath)}

\* C16: cleanup_missing_photos removes exactly the records whose file does not
\* exist, removes the photo_embeddings and photo_group_members rows of those
\* records, leaves every other row of the three tables (and photo_groups) as
\* it is, and returns the number of records removed.
C16_CleanupMissing ==
    [][cleanup_stale_entries =>
          /\ db'.rows = db.rows \ Missing(db.rows, fs)
          /\ sim'.embeddings =
                {e \in sim.embeddings : \A r \in Missing(db.rows, fs) : r.id # e.photo_id}
          /\ sim'.members =
                {m \in sim.members : \A r \in Missing(db.rows, fs) : r.id # m.photo_id}
          /\ sim'.groups = sim.groups
          /\ ret' = Cardinality(Missing(db.rows, fs))
          /\ fs' = fs]_vars

\* a cleanup has removed one record; of a group of two photos one member row
\* is left, and one embedding
C16_Witness ==
    /\ ret = 1
    /\ sim.pc = "idle"
    /\ Cardinality(sim.embeddings) = 1
    /\ \E g \in sim.groups :
          /\ g.photo_count = 2
          /\ Cardinality({m \in sim.members : m.group_id = g.id}) = 1
    /\ \A e \in sim.embeddings : \E r \in db.rows : r.id = e.photo_id

\* C17: every row of photo_embeddings and of photo_group_members references
\* a record of the catalog: a member row is inserted only for a photo that is
\* there, and the rows of a photo go when its record goes.
C17_ReferencesExist ==
    /\ \A e \in sim.embeddings : \E r \in db.rows : r.id = e.photo_id
    /\ \A m \in sim.members : \E r \in db.rows : r.id = m.photo_id

(***************************************************************************)
(* Properties of the calls of the catalog.                                 *)
(***************************************************************************)
\* C18: a write of the catalog that fails with "database is locked" is
\* retried: the error reaches the caller only after default_max_retries
\* invocations.
C18_WritesRetried ==
    /\ call.op \in WriteOperations
    /\ call.status = "raised"
    /\ call.invocations[Len(call.invocations)] = "locked"
    => Len(call.invocations) = default_max_retries

\* a call through execute_with_retry has ended
Ended == call.status \in {"returned", "raised"}

\* C19: execute_with_retry invokes the function at most max_retries times and
\* ends; it returns at the first invocation that succeeds, which is the last;
\* a failure other than "database is locked" is raised by the invocation in
\* which it happens, with no retry after it (after exactly one invocation when
\* it is the first); when all max_retries invocations fail with "database is
\* locked" the last error is raised; the wait before retry k = 0, 1, ... is
\* at least 2^k seconds.
C19_BoundedRetry ==
    /\ [](Wrapped(call.op) =>
            /\ Len(call.invocations) <= call.max_retries
            /\ \A i \in 1..Len(call.invocations) :
                  /\ i < Len(call.invocations) => call.invocations[i] = "locked"
                  /\ call.invocations[i] # "locked" => Ended /\ i = Len(call.invocations)
            /\ call.status = "returned" <=>
                  (call.invocations # <<>> /\ call.invocations[Len(call.invocations)] = "ok")
            /\ call.status = "raised" <=>
                  \/ /\ call.invocations # <<>>
                     /\ call.invocations[Len(call.invocations)] \in {"operational", "error"}
                  \/ /\ Len(call.invocations) = call.max_retries
                     /\ \A i \in 1..Len(call.invocations) : call.invocations[i] = "locked"
            /\ call.invocations # <<>> /\ call.invocations[1] \in {"operational", "error"}
                  => call.status = "raised" /\ Len(call.invocations) = 1
            /\ Len(call.waits) = Len(call.invocations) - (IF Ended THEN 1 ELSE 0)
            /\ \A k \in 0..(Len(call.waits) - 1) : call.waits[k + 1] >= 1000 * Pow2(k))
    /\ (call.status = "running" ~> Ended)
    /\ [][Ended => call' = call]_vars

\* every invocation of a call with the default max_retries has failed with
\* "database is locked", and the call has raised after two waits
C19_Witness ==
    /\ call.op = "get_unprocessed_photos"
    /\ call.status = "raised"
    /\ call.invocations = <<"locked", "locked", "locked">>
    /\ Len(call.waits) = 2

(***************************************************************************)
(* Properties of the scheduler.                                            *)
(***************************************************************************)
\* C20: at most one run of run_full_photo_processing is in flight: the run of
\* the initial job and a run of the interval job never overlap.
C20_OneRunInFlight == ~(InFlight(sched.initial) /\ InFlight(sched.interval))

(***************************************************************************)
(* Properties of the requests.                                             *)
(***************************************************************************)
\* update_photo_date has been called and has not returned
InProtocol(t) == t.pc \notin {"idle", "done"}

\* C21: no two executions of update_photo_date on the same path overlap,
\* however the requests arrive.
C21_CorrectionsSerialized ==
    ~(InProtocol(tx) /\ InProtocol(other.tx) /\ tx.file = other.tx.file)

\* the step in which update_date answers
RespondStep == req.active /\ ~req'.active

\* all(r['success'] for r in results)
all_success(results) == \A i \in 1..Len(results) : results[i].success

\* C22: the answer of update_date has one outcome for every file of the set
\* (front, back, each variant), and its success flag is true only if every
\* file of the set has been corrected.
C22_OutcomePerFile ==
    [][RespondStep =>
          /\ \A k \in 1..Len(req.files) :
                req.files[k] # NoPath =>
                   Cardinality({i \in 1..Len(req.results) :
                                   req.results[i].file = req.files[k]}) = 1
          /\ all_success(req.results) =>
                \A k \in 1..Len(req.files) :
                   req.files[k] # NoPath =>
                      \E i \in 1..Len(req.results) :
                         req.results[i].file = req.files[k] /\ req.results[i].success]_vars

(***************************************************************************)
(* Properties of the naming functions.                                     *)
(***************************************************************************)
Named == naming.file_type # "none"

\* the rule of the specification: the side suffix and the extension are
\* compared without regard to letter case
ReferenceRole(filename) ==
    IF Len(filename) >= 2 /\ IsJpeg(Last(filename))
    THEN CASE Lower(filename[Len(filename) - 1]) = "_a" -> "front"
           [] Lower(filename[Len(filename) - 1]) = "_b" -> "back"
           [] OTHER -> "variant"
    ELSE "variant"

\* C23: _determine_file_type gives front for a name that ends in _a.jpg or
\* _a.jpeg in any letter case, back for _b.jpg or _b.jpeg in any letter case,
\* and variant for every other name.
C23_RoleMatchesRule == Named => naming.file_type = ReferenceRole(naming.filename)

\* the names N of which the file name is N.jpg, N_a.jpg or N_b.jpg, or one of
\* these behind a date prefix (suffix and extension in any letter case)
NamesOf(filename) ==
    IF Len(filename) >= 2 /\ IsJpeg(Last(filename))
    THEN LET body == Front(filename) IN
         {SubSeq(body, 1 + d[1], Len(body) - d[2]) :
             d \in {x \in {0, 1} \X {0, 1} :
                      /\ x[1] = 1 => IsDatePrefix(Head(body))
                      /\ x[2] = 1 => IsSide(Last(body))
                      /\ Len(body) - x[1] - x[2] >= 1}}
    ELSE {}

\* a name that has no date prefix and no side suffix of its own
PlainName(N) == ~IsDatePrefix(Head(N)) /\ ~IsSide(Last(N))

\* a file name whose extension is not .jpg/.jpeg gives the name without the
\* extension
OtherExtensionStripped ==
    Len(naming.filename) >= 2 /\ IsExtension(Last(naming.filename))
        /\ ~IsJpeg(Last(naming.filename))
    => naming.base_name \o <<Last(naming.filename)>> = naming.filename

SchemaOf(store) ==
    [tables |-> [t \in DOMAIN store.tables |-> store.tables[t].columns],
     indexes |-> store.indexes]

\* the columns a row may leave NULL
OptionalColumns == {"default_date", "processed_date", "ignored_date", "name", "description",
                    "similarity_score"}

\* new holds every table, column, index and row of old, each row with the
\* values it had, and the columns it adds to a table of old are optional
Additive(old, new) ==
    /\ DOMAIN old.tables \subseteq DOMAIN new.tables
    /\ old.indexes \subseteq new.indexes
    /\ \A t \in DOMAIN old.tables :
          /\ old.tables[t].columns \subseteq new.tables[t].columns
          /\ new.tables[t].columns \ old.tables[t].columns \subseteq OptionalColumns
          /\ \A r \in old.tables[t].rows :
                \E w \in new.tables[t].rows : \A k \in DOMAIN r : w[k] = r[k]

\* C25: a startup (init_database, then run_migrations) on any store only
\* adds tables, indexes and optional columns and keeps every row and column
\* the store had with its values; a startup on a store that was started
\* before leaves the schema as the first startup made it.
C25_StartupIdempotentAdditive ==
    [][schema' # schema =>
          /\ Additive(schema, schema')
          /\ schema.starts >= 1 => SchemaOf(schema') = SchemaOf(schema)]_vars

\* a legacy store with a row in a photos table without default_date was
\* started twice
C25_Witness ==
    /\ schema.starts >= 2
    /\ \E r \in schema.tables["photos"].rows :
          r["filepath"] = "old" /\ r["default_date"] = "NULL"

(***************************************************************************)
(* Properties of the caches of the PhotoManager.                           *)
(***************************************************************************)
\* a step that is a call of scan_photos on the long-lived manager
ScanCall == scans'.calls = scans.calls + 1

\* a step that is a request reading get_unprocessed_photo_pairs
PairsCall == requests' = requests + 1

\* less than the TTL has elapsed since a value was stored at time at
WithinTTL(at) == at # NULL /\ now - at < cache_timeout

\* C26: a call returns the cached value exactly when less than the TTL has
\* elapsed since it was stored, and then walks nothing, inserts nothing and
\* leaves the entry as it is; a call at or after expiry (or with nothing
\* stored) returns and stores what the current file system and catalog
\* give; no other step, catalog writes included, changes a cache entry.
C26_CacheExpiresOnly ==
    [][/\ ScanCall =>
             IF WithinTTL(scans.at)
             THEN /\ ~scans'.walked /\ scans'.returned = scans.value
                  /\ scans'.value = scans.value /\ scans'.at = scans.at
                  /\ db' = db
             ELSE /\ scans'.walked /\ scans'.at = now
                  /\ \E scanned \in ScanOutcomes(fs, db) :
                        /\ scans'.returned = scanned.result
                        /\ scans'.value = scanned.result
                        /\ db' = scanned.db
       /\ ~ScanCall => scans' = scans
       /\ PairsCall =>
             IF WithinTTL(cache.at)
             THEN cache' = cache
             ELSE /\ cache'.at = now
                  /\ \E o \in QueryOrders(db.rows) :
                        cache'.value = FrontOrBack(get_unprocessed_photos(o))
       /\ ~PairsCall => cache' = cache]_vars

\* a second call returned the cached sets although the catalog has changed
\* since and a walk would not give them any more
C26_Witness ==
    /\ scans.calls >= 2
    /\ ~scans.walked
    /\ scans.returned # <<>>
    /\ \A scanned \in ScanOutcomes(fs, db) : scanned.result # scans.returned

(***************************************************************************)
(* Properties of the clustering.                                           *)
(***************************************************************************)
\* the filepaths of a group
MembersOf(group) == {group[k] : k \in 1..Len(group)}

\* C27: whatever the stored embeddings, eps and min_samples, the result of
\* find_similar_groups has no group of fewer than two photos, lists no photo
\* twice (in one group or in two), and is empty when fewer than two of the
\* stored embeddings load.
C27_GroupsDisjointNoSingleton ==
    \A r \in 1..Len(analysis.runs) :
        LET groups == analysis.runs[r] IN
        /\ \A g \in 1..Len(groups) :
              /\ Len(groups[g]) >= 2
              /\ Cardinality(MembersOf(groups[g])) = Len(groups[g])
        /\ \A g, h \in 1..Len(groups) :
              g # h => MembersOf(groups[g]) \cap MembersOf(groups[h]) = {}
        /\ Len(Loaded(analysis.embeddings_data)) < 2 => groups = <<>>

\* a run found two groups and left a photo out as noise, with one stored
\* embedding that does not load
C27_Witness ==
    /\ Len(analysis.runs) >= 1
    /\ Len(analysis.runs[1]) >= 2
    /\ Len(Loaded(analysis.embeddings_data)) < Len(analysis.embeddings_data)
    /\ \E i \in 1..Len(analysis.embeddings_data) :
          /\ analysis.embeddings_data[i].embedding # NULL
          /\ \A g \in 1..Len(analysis.runs[1]) :
                analysis.embeddings_data[i].filepath \notin MembersOf(analysis.runs[1][g])

\* the partition a result stands for
PartitionOf(groups) == {MembersOf(groups[g]) : g \in 1..Len(groups)}

Stored == sim'.embeddings \ sim.embeddings

\* the photo is a variant that is neither processed nor ignored
Extractable(rows, photo_id) ==
    \E r \in rows :
        /\ r.id = photo_id
        /\ r.file_type = "variant"
        /\ r.processed_date = NULL
        /\ r.ignored_date = NULL

\* C29: an embedding is stored only for a photo that is then an unprocessed,
\* unignored variant; no front or back has an embedding; no photo has two.
C29_EmbeddingsOfVariantsOnly ==
    /\ [][\A e \in Stored : Extractable(db.rows, e.photo_id)]_vars
    /\ [](\A e \in sim.embeddings : \A r \in db.rows :
              r.id = e.photo_id => r.file_type = "variant")
    /\ [](\A e, f \in sim.embeddings : e.photo_id = f.photo_id => e = f)

(***************************************************************************)
(* Properties of the hash step.                                            *)
(***************************************************************************)
\* C30: when the file cannot be read at the hash step, update_photo_date
\* returns failure at once, and neither that step nor any step until the
\* outcome is collected changes a file (no backup is made, the file keeps
\* its bytes, its timestamp and its place) or the catalog.
C30_HashFailureChangesNothing ==
    [][tx.failed_at = "hash" \/ tx'.failed_at = "hash" =>
          /\ fs' = fs
          /\ db' = db
          /\ tx'.failed_at = "hash" => tx'.pc = "done" /\ ~tx'.success]_vars

\* the file is there and could not be read: the correction has failed at
\* the hash step
C30_Witness ==
    /\ tx.failed_at = "hash"
    /\ tx.pc = "done"
    /\ Exists(fs, tx.file)
    /\ ~Exists(fs, BackupPath(tx.file))

(***************************************************************************)
(* Properties of the scan.                                                 *)
(***************************************************************************)
\* the slots of the sets of a scan result that hold the file
SlotsOf(result, p) ==
    {<<b, "front", 0>> : b \in {k \in DOMAIN result : result[k].front = p}} \cup
    {<<b, "back", 0>> : b \in {k \in DOMAIN result : result[k].back = p}} \cup
    {<<x[1], "variants", x[2]>> :
        x \in {y \in (DOMAIN result) \X (1..MaxId) :
                  y[2] <= Len(result[y[1]].variants)
                  /\ result[y[1]].variants[y[2]] = p}}

\* the places of the walk that hold a file of the base name and the type
PlacesOf(walk, base_name, file_type) ==
    {i \in 1..Len(walk) : /\ extract_base_name(walk[i].name) = base_name
                          /\ determine_file_type(walk[i].name) = file_type}

Max(S) == CHOOSE x \in S : \A y \in S : y <= x

Min(S) == CHOOSE x \in S : \A y \in S : x <= y

\* C31: a scan that walked the tree returns every walked file in exactly
\* one slot of one set and no other file; the front (back) slot of a set
\* holds the front (back) file seen last, the earlier ones being variants;
\* with no front file the first suffix-less file seen holds the front slot.
C31_ScanDropsNoFile ==
    scans.walked =>
        /\ \A i \in 1..Len(scans.walk) :
              Cardinality(SlotsOf(scans.returned, scans.walk[i])) = 1
        /\ \A b \in DOMAIN scans.returned :
              LET fronts == PlacesOf(scans.walk, b, "front")
                  backs == PlacesOf(scans.walk, b, "back")
                  plain == PlacesOf(scans.walk, b, "variant")
                  pair == scans.returned[b]
                  listed == {pair.variants[k] : k \in 1..Len(pair.variants)}
              IN  /\ fronts # {} =>
                        /\ pair.front = scans.walk[Max(fronts)]
                        /\ \A i \in fronts \ {Max(fronts)} : scans.walk[i] \in listed
                  /\ backs # {} =>
                        /\ pair.back = scans.walk[Max(backs)]
                        /\ \A i \in backs \ {Max(backs)} : scans.walk[i] \in listed
                  /\ fronts = {} /\ plain # {} => pair.front = scans.walk[Min(plain)]
                  /\ \A p \in {pair.front, pair.back} \cup listed :
                        p = NoPath \/ \E i \in 1..Len(scans.walk) : scans.walk[i] = p

\* a scan met two fronts of one base name: the second holds the slot, the
\* first is a variant
C31_Witness ==
    /\ scans.walked
    /\ \E b \in DOMAIN scans.returned :
          /\ Cardinality(PlacesOf(scans.walk, b, "front")) >= 2
          /\ scans.returned[b].variants # <<>>

\* the paths of a sequence
PathsOf(paths) == {paths[i] : i \in 1..Len(paths)}

\* C32: a call of scan_photos that walks requests thumbnails only after the
\* batch insert of the staged records, and for exactly the walked paths
\* that the catalog did not hold when the scan started; a scan that stages
\* nothing inserts nothing and requests nothing.
C32_ThumbnailsAfterInsert ==
    [][ScanCall /\ scans'.walked =>
          LET unknown == PathsOf(scans'.walk) \ get_all_photo_paths(db.rows)
              effects == scans'.effects
          IN  /\ \A i \in 1..Len(effects) :
                    effects[i].op = "batch_generate_thumbnails" =>
                        /\ \E k \in 1..(i - 1) : effects[k].op = "batch_add_photos"
                        /\ PathsOf(effects[i].paths) = unknown
                        /\ unknown \subseteq get_all_photo_paths(db'.rows)
              /\ unknown # {} =>
                    \E i \in 1..Len(effects) : effects[i].op = "batch_generate_thumbnails"]_vars

\* a scan found a file that the catalog held and one that it did not, and
\* requested a thumbnail
C32_Witness ==
    /\ scans.walked
    /\ Len(scans.effects) = 2
    /\ Len(scans.effects[2].paths) < Len(scans.walk)

(***************************************************************************)
(* Properties of a run of the scheduled pipeline.                          *)
(***************************************************************************)
\* the place of a call in the trace of the run, 0 when it was not made
PlaceOf(trace, done) ==
    IF \E i \in 1..Len(trace) : trace[i] = done
    THEN CHOOSE i \in 1..Len(trace) : trace[i] = done
    ELSE 0

\* C33: in a run the scan completes before anything else is called; the
\* embeddings are computed only after a scan that succeeded, the clustering
\* only after them, the groups are written only after the clustering; the
\* run returns True exactly when all four calls completed.
C33_ScanThenAnalysis ==
    LET trace == sched.run.trace
        scanned == PlaceOf(trace, "scan_photos")
        embedded == PlaceOf(trace, "compute_embeddings_for_all_photos")
        clustered == PlaceOf(trace, "find_similar_groups")
        stored == PlaceOf(trace, "create_photo_groups_in_database")
    IN  /\ trace # <<>> => scanned = 1
        /\ embedded # 0 => scanned # 0 /\ scanned < embedded
        /\ clustered # 0 => embedded # 0 /\ embedded < clustered
        /\ stored # 0 => clustered # 0 /\ clustered < stored
        /\ sched.run.pc = "returned" => (sched.run.returned <=> stored # 0)

\* a run whose scan succeeded and whose clustering raised has returned False
C33_Witness ==
    /\ sched.run.pc = "returned"
    /\ ~sched.run.returned
    /\ sched.run.trace = <<"scan_photos", "compute_embeddings_for_all_photos">>

(***************************************************************************)
(* Properties of the name a relocated file gets.                           *)
(***************************************************************************)
Renamed == naming.new_filename # <<>>

\* the name begins with YYYY-MM-DD_
HasDatePrefix(s) ==
    /\ Len(s) >= 11
    /\ \A i \in {1, 2, 3, 4, 6, 7, 9, 10} : s[i] \in Digit
    /\ s[5] = "-" /\ s[8] = "-" /\ s[11] = "_"

\* <target-date>_<original-name>[_<disambiguator>].<ext>
NamesKeeping(original_filename, date_prefix) ==
    LET parts == splitext(original_filename) IN
    {date_prefix \o <<"_">> \o original_filename}
    \cup {date_prefix \o <<"_">> \o parts.root \o <<"_">> \o suffix \o parts.ext :
             suffix \in Disambiguators}

\* C34: the name of a relocated file whose original name did not begin with
\* a YYYY-MM-DD_ prefix is the target date, an underscore and the original
\* name in full, with at most a disambiguator before the extension.
C34_OriginalNameKept ==
    Renamed /\ ~HasDatePrefix(naming.filename)
    => naming.new_filename \in NamesKeeping(naming.filename, date_prefix_of(naming.date))

(***************************************************************************)
(* Properties of the lifecycle writes.                                     *)
(***************************************************************************)
\* the rows before and after are the same records, and each record other
\* than the one that held filepath is as it was; that one differs from
\* what it was in the fields named at most
FrameOf(filepath, fields) ==
    /\ db'.next = db.next
    /\ {r.id : r \in db'.rows} = {r.id : r \in db.rows}
    /\ Cardinality({r \in db.rows : r.filepath = filepath}) <= 1
    /\ \A r \in db.rows : \A after \in db'.rows :
          after.id = r.id =>
             IF r.filepath = filepath
             THEN \A f \in DOMAIN r \ fields : after[f] = r[f]
             ELSE after = r

\* C35: mark_photo_processed changes filepath and processed_date of the one
\* record that held the old path and nothing else; mark_photo_ignored
\* changes ignored_date of the one record that holds the path and nothing
\* else; a record keeps its base_name, and its filepath changes only from a
\* path of the unprocessed tree to a path of the processed tree, hence at
\* most once.
C35_WritesFrame ==
    [][/\ \A old_filepath \in IngestFiles : \A new_filepath \in NewPaths(old_filepath) :
             MarkProcessed(old_filepath, new_filepath)
             => /\ FrameOf(old_filepath, {"filepath", "processed_date"})
                /\ \A after \in db'.rows :
                      (\E r \in db.rows : r.id = after.id /\ r.filepath = old_filepath)
                      => after.filepath = new_filepath /\ after.processed_date = now
       /\ \A filepath \in IngestFiles :
             MarkIgnored(filepath)
             => /\ FrameOf(filepath, {"ignored_date"})
                /\ \A after \in db'.rows :
                      after.filepath = filepath => after.ignored_date = now
       /\ \A r \in db.rows : \A after \in db'.rows :
             after.id = r.id
             => /\ after.base_name = r.base_name
                /\ after.filepath # r.filepath
                   => InUnprocessedTree(r.filepath) /\ InProcessedTree(after.filepath)
      ]_vars

\* one record of a set was relocated, a second one ignored, a third one is
\* as the scan wrote it
C35_Witness ==
    \E r1, r2, r3 \in db.rows :
        /\ r1.base_name = r2.base_name /\ r2.base_name = r3.base_name
        /\ InProcessedTree(r1.filepath) /\ r1.processed_date # NULL /\ r1.ignored_date = NULL
        /\ r2.processed_date = NULL /\ r2.ignored_date # NULL
        /\ r3.processed_date = NULL /\ r3.ignored_date = NULL

(***************************************************************************)
(* Properties of a correction that has returned.                           *)
(***************************************************************************)
ReportedSucceeded == tx.pc = "done" /\ tx.success

\* C36: when update_photo_date returns success, the file is gone from its
\* original path and stands at a path under the processed root, the record
\* the catalog had of it holds that path and a processed_date, and no
\* backup of the file is left.
C36_SuccessMeansRelocated ==
    ReportedSucceeded =>
        /\ ~Exists(fs, tx.file)
        /\ InProcessedTree(tx.new_filepath) /\ Exists(fs, tx.new_filepath)
        /\ tx.committed =>
              \E r \in db.rows : r.filepath = tx.new_filepath /\ r.processed_date # NULL
        /\ ~Exists(fs, BackupPath(tx.file))

\* the file stands where move_photo_to_processed put it
AtRelocatedPath ==
    /\ InProcessedTree(tx.new_filepath)
    /\ Exists(fs, tx.new_filepath)
    /\ fs[tx.new_filepath].src = tx.file

\* C37: when update_photo_date has returned for a file it could read, the
\* photo stands at its original path or at its relocated path and not at
\* both, and after a failure it does not stand in the processed tree.
C37_OneLocation ==
    tx.pc = "done" /\ tx.original_hash # None =>
        /\ Exists(fs, tx.file) # AtRelocatedPath
        /\ ~tx.success => ~AtRelocatedPath

(***************************************************************************)
(* The sets of the scan against the sets of the catalog.                   *)
(***************************************************************************)
\* two lists of sets hold the same base names, and each set the same files
\* in its front slot, in its back slot and among its variants
SameSets(scanned, listed) ==
    /\ DOMAIN scanned = DOMAIN listed
    /\ \A b \in DOMAIN scanned \cap DOMAIN listed :
          /\ scanned[b].front = listed[b].front
          /\ scanned[b].back = listed[b].back
          /\ PathsOf(scanned[b].variants) = PathsOf(listed[b].variants)

\* C38: what a scan that walked the tree returns and what
\* get_unprocessed_photo_pairs computes from the catalog the scan leaves
\* are the same sets with the same files in the same slots.
C38_ScanAgreesWithCatalog ==
    [][ScanCall /\ scans'.walked =>
          \A o \in QueryOrders(db'.rows) :
              SameSets(scans'.returned, FrontOrBack(get_unprocessed_photos(o)))]_vars

(***************************************************************************)
(* Properties of the operations on a whole set.                            *)
(***************************************************************************)
StillUnprocessed(rows, base_name) ==
    {r \in rows : r.base_name = base_name /\ r.processed_date = NULL /\ r.ignored_date = NULL}

\* C39: when POST /ignore_photos has found the set in the list it works
\* from (cache'.value) and so reports success, the catalog holds no record
\* of that base_name with both dates NULL.
C39_SetLeavesNoUnprocessed ==
    [][\A b \in BaseNames :
          ignore_photos(b) /\ b \in DOMAIN cache'.value
          => StillUnprocessed(db'.rows, b) = {}]_vars

(***************************************************************************)
(* Properties of the groups of a clustering run.                           *)
(***************************************************************************)
\* C40: the groups a run of find_similar_groups hands on to be written
\* hold only files whose record is neither processed nor ignored when the
\* run reads the embeddings.
C40_GroupsOfUnprocessedOnly ==
    [][find_similar_groups =>
          \A i \in 1..Len(sim'.found) : \A filepath \in sim'.found[i] :
              \E r \in db.rows : /\ r.filepath = filepath
                                 /\ r.processed_date = NULL
                                 /\ r.ignored_date = NULL]_vars

====
